---- MODULE Spec2Model ----
(***************************************************************************)
(* A model of the conversation orchestration core of the customer-care     *)
(* assistant: the order lifecycle (agents/state_machine.py), the rule      *)
(* based dialogue state manager (agents/dialogue_state_manager.py), the    *)
(* deterministic resolver and its response policy                          *)
(* (agents/deterministic_resolver.py, agents/response_templates.py) and    *)
(* the router that drives them (agents/router_agent.py).                   *)
(*                                                                         *)
(* Messages are strings.  Keyword tests are substring tests on the         *)
(* lower-cased message, as Python's `kw in message.lower()`; regular       *)
(* expressions are modelled by scanning the characters of the string.      *)
(***************************************************************************)
EXTENDS Integers, Sequences, FiniteSets, TLC

VARIABLES
    \* ---- _detect_intent applied to one message (SpecDetect) ----
    msg,            \* the message handed to _detect_intent
    detected,       \* what it returned, None before the call
    \* ---- one OrderState object (SpecOrder) ----
    order,          \* [status, tracking_number, delivery_eta]
    orderCall,      \* the last method call on it and what it returned, and whether
                    \* the order has been shipped or delivered so far
    \* ---- one session of the dialogue state manager (SpecDialogue) ----
    world,          \* the session's DialogueState and persistent_entities
    enhancedMode,   \* whether data.enhanced_data_access can be imported
    turn,           \* the last call: its message, the state before it, what it
                    \* looked up, whether it reset the state, what it returned
    \* ---- one session of the router (SpecRouter) ----
    sessionMemory,  \* the SessionMemory object
    rturn,          \* the last call: its message, the resolved flag and the order
                    \* states before it, what it returned
    \* ---- one use of the response policy layer (SpecPolicy) ----
    policy,         \* the arguments of get_response, the response, and what
                    \* validate_response returned for it
    \* ---- detect_complete_request applied to one message (SpecRequest) ----
    request,       \* the message and the dict returned for it
    \* ---- the NLP fallback of the router applied to one analysis (SpecFallback) ----
    fallback,       \* the scores and entities of a message, the session, the routing made
                    \* and the confidence scores reported
    \* ---- the application serving user_message events of several sessions (SpecServer) ----
    server          \* the DialogueState objects, the handlers started in arrival order,
                    \* and each session's messages replayed on a state of their own

detectVars == <<msg, detected>>
orderVars == <<order, orderCall>>
dialogueVars == <<world, enhancedMode, turn>>
routerVars == <<sessionMemory, rturn>>
policyVars == <<policy>>
requestVars == <<request>>
fallbackVars == <<fallback>>
serverVars == <<server>>
vars ==
    <<msg, detected, order, orderCall, world, enhancedMode, turn, sessionMemory, rturn,
      policy, request, fallback, server>>

(***************************************************************************)
(* Bounds of the model.                                                    *)
(***************************************************************************)
\* The longest message, in vocabulary words, handed to _detect_intent.
MaxWords == 3

(***************************************************************************)
(* Python values.                                                          *)
(***************************************************************************)
\* Python's None, where the other values are strings.
None == "None"

(***************************************************************************)
(* Text: str.lower, str.upper, `in`, and the scans the regexes perform.    *)
(***************************************************************************)
UpperAlpha == "ABCDEFGHIJKLMNOPQRSTUVWXYZ"

LowerAlpha == "abcdefghijklmnopqrstuvwxyz"

DigitChars == "0123456789"

\* The character of s at position i, as a one-character string.
CharAt(s, i) == SubSeq(s, i, i)

\* Where c stands in the alphabet a, 0 when it does not.
IndexIn(a, c) ==
    IF \E i \in 1..Len(a) : CharAt(a, i) = c
    THEN CHOOSE i \in 1..Len(a) : CharAt(a, i) = c
    ELSE 0

Digits == {CharAt(DigitChars, i) : i \in 1..Len(DigitChars)}

IsDigit(c) == c \in Digits

\* The lower-case letter of every upper-case letter.
LowerMap ==
    [c \in {CharAt(UpperAlpha, i) : i \in 1..Len(UpperAlpha)} |->
        CharAt(LowerAlpha, IndexIn(UpperAlpha, c))]

\* The upper-case letter of every lower-case letter.
UpperMap ==
    [c \in {CharAt(LowerAlpha, i) : i \in 1..Len(LowerAlpha)} |->
        CharAt(UpperAlpha, IndexIn(LowerAlpha, c))]

LowerChar(c) == IF c \in DOMAIN LowerMap THEN LowerMap[c] ELSE c

UpperChar(c) == IF c \in DOMAIN UpperMap THEN UpperMap[c] ELSE c

RECURSIVE Lower(_)
\* str.lower()
Lower(s) ==
    IF s = "" THEN ""
    ELSE IF Len(s) = 1 THEN LowerChar(CharAt(s, 1))
    ELSE Lower(SubSeq(s, 1, Len(s) \div 2)) \o Lower(SubSeq(s, (Len(s) \div 2) + 1, Len(s)))

RECURSIVE Upper(_)
\* str.upper()
Upper(s) ==
    IF s = "" THEN ""
    ELSE IF Len(s) = 1 THEN UpperChar(CharAt(s, 1))
    ELSE Upper(SubSeq(s, 1, Len(s) \div 2)) \o Upper(SubSeq(s, (Len(s) \div 2) + 1, Len(s)))

\* Python's `k in s` for strings.
Contains(s, k) ==
    \E i \in 1..(Len(s) - Len(k) + 1) : SubSeq(s, i, i + Len(k) - 1) = k

\* any(keyword in s for keyword in keywords)
AnyIn(keywords, s) == \E k \in keywords : Contains(s, k)

\* The end of the longest run of digits of s that starts at position i.
RECURSIVE DigitRunEnd(_, _)
DigitRunEnd(s, i) ==
    IF i < Len(s) /\ IsDigit(CharAt(s, i + 1)) THEN DigitRunEnd(s, i + 1) ELSE i

\* re.search(r'(\d+)', s): the leftmost, longest run of digits of s, "" when s
\* holds no digit.
FirstDigitRun(s) ==
    LET starts == {i \in 1..Len(s) : IsDigit(CharAt(s, i))} IN
    IF starts = {} THEN ""
    ELSE LET i == CHOOSE x \in starts : \A y \in starts : x <= y
         IN  SubSeq(s, i, DigitRunEnd(s, i))

\* int(digits)
RECURSIVE ParseInt(_)
ParseInt(digits) ==
    IF digits = "" THEN 0
    ELSE ParseInt(SubSeq(digits, 1, Len(digits) - 1)) * 10
         + (IndexIn(DigitChars, CharAt(digits, Len(digits))) - 1)

\* str(n) for an int n >= 0
RECURSIVE IntToStr(_)
IntToStr(n) ==
    IF n < 10 THEN CharAt(DigitChars, n + 1)
    ELSE IntToStr(n \div 10) \o CharAt(DigitChars, (n % 10) + 1)

(***************************************************************************)
(* Python dicts as functions, and Optional[int] as a sequence of at most   *)
(* one element: <<>> is None, <<n>> is n.                                  *)
(***************************************************************************)
EmptyDict == <<>>

DictSet(d, k, v) == [x \in (DOMAIN d) \cup {k} |-> IF x = k THEN v ELSE d[x]]

DictPop(d, k) == [x \in (DOMAIN d) \ {k} |-> d[x]]

NoInt == <<>>

SomeInt(n) == <<n>>

\* Python's truth value of an Optional[int]: None and 0 are false.
TruthyInt(opt) == opt # NoInt /\ opt[1] # 0

(***************************************************************************)
(* Intents and keyword tables of DialogueStateManager.                     *)
(***************************************************************************)
CUSTOMER_LOOKUP == "customer_lookup"

ORDER_DETAIL_QUERY == "order_detail_query"

BILLING_ISSUE == "billing_issue"

RETURN_ORDER == "return_order"

ORDER_STATUS == "order_status"

FAQ == "faq"

\* Intent.NONE, the member whose value is None.
NONE == "Intent.NONE"

Intent ==
    {CUSTOMER_LOOKUP, ORDER_DETAIL_QUERY, BILLING_ISSUE, RETURN_ORDER, ORDER_STATUS, FAQ, NONE}

CUSTOMER_LOOKUP_KEYWORDS ==
    {"customer", "customer id", "customer details", "customer information",
     "cust", "details regarding customer", "customer profile"}

ORDER_DETAIL_KEYWORDS ==
    {"price", "cost", "amount", "details", "detail", "product", "item",
     "ordered", "order details"}

BILLING_ISSUE_KEYWORDS ==
    {"charged", "double", "refund", "payment", "billing", "debited",
     "money deducted"}

RETURN_ORDER_KEYWORDS ==
    {"return", "exchange", "send back", "wrong item", "defective", "damaged",
     "not what i ordered", "incorrect", "faulty", "cancel", "cancellation",
     "cancel my order"}

ORDER_STATUS_KEYWORDS ==
    {"track", "status", "where is", "when will", "shipped", "arrive", "eta",
     "tracking", "delivered"}

FAQ_KEYWORDS ==
    {"subscription", "food delivery", "internet", "connection", "issue",
     "problem", "help", "support", "question", "how to", "what is", "contact",
     "hours", "business", "app", "crashing", "technical", "coupon", "discount",
     "offer", "promo", "food", "restaurant"}

\* self.intent_keywords
intent_keywords(intent) ==
    CASE intent = CUSTOMER_LOOKUP -> CUSTOMER_LOOKUP_KEYWORDS
      [] intent = ORDER_DETAIL_QUERY -> ORDER_DETAIL_KEYWORDS
      [] intent = RETURN_ORDER -> RETURN_ORDER_KEYWORDS
      [] intent = ORDER_STATUS -> ORDER_STATUS_KEYWORDS
      [] intent = BILLING_ISSUE -> BILLING_ISSUE_KEYWORDS
      [] intent = FAQ -> FAQ_KEYWORDS

\* self.required_slots
required_slots(intent) ==
    CASE intent = CUSTOMER_LOOKUP -> <<"customer_id">>
      [] intent \in {ORDER_DETAIL_QUERY, BILLING_ISSUE, RETURN_ORDER, ORDER_STATUS} ->
            <<"order_id">>
      [] OTHER -> <<>>

\* _detect_intent with the billing test moved ahead of the order-detail test.
DetectIntentBillingFirst(message) ==
    LET message_lower == Lower(message) IN
    IF AnyIn(CUSTOMER_LOOKUP_KEYWORDS, message_lower) THEN CUSTOMER_LOOKUP
    ELSE IF AnyIn(BILLING_ISSUE_KEYWORDS, message_lower) THEN BILLING_ISSUE
    ELSE IF AnyIn(ORDER_DETAIL_KEYWORDS, message_lower) THEN ORDER_DETAIL_QUERY
    ELSE IF AnyIn(intent_keywords(RETURN_ORDER), message_lower) THEN RETURN_ORDER
    ELSE IF AnyIn(intent_keywords(ORDER_STATUS), message_lower) THEN ORDER_STATUS
    ELSE IF AnyIn(intent_keywords(FAQ), message_lower) THEN FAQ
    ELSE FAQ

\* _detect_intent with the status test moved ahead of the return test and the
\* final default returning Intent.NONE.
DetectIntentStatusFirst(message) ==
    LET message_lower == Lower(message) IN
    IF AnyIn(CUSTOMER_LOOKUP_KEYWORDS, message_lower) THEN CUSTOMER_LOOKUP
    ELSE IF AnyIn(ORDER_DETAIL_KEYWORDS, message_lower) THEN ORDER_DETAIL_QUERY
    ELSE IF AnyIn(intent_keywords(ORDER_STATUS), message_lower) THEN ORDER_STATUS
    ELSE IF AnyIn(intent_keywords(RETURN_ORDER), message_lower) THEN RETURN_ORDER
    ELSE IF AnyIn(BILLING_ISSUE_KEYWORDS, message_lower) THEN BILLING_ISSUE
    ELSE IF AnyIn(intent_keywords(FAQ), message_lower) THEN FAQ
    ELSE NONE

\* DialogueStateManager._detect_intent: the first keyword category, in the
\* fixed order of the if-chain, one of whose keywords occurs in the
\* lower-cased message.
_detect_intent(message) ==
    LET message_lower == Lower(message) IN
    IF AnyIn(CUSTOMER_LOOKUP_KEYWORDS, message_lower) THEN CUSTOMER_LOOKUP
    ELSE IF AnyIn(ORDER_DETAIL_KEYWORDS, message_lower) THEN ORDER_DETAIL_QUERY
    ELSE IF AnyIn(intent_keywords(RETURN_ORDER), message_lower) THEN RETURN_ORDER
    ELSE IF AnyIn(intent_keywords(ORDER_STATUS), message_lower) THEN ORDER_STATUS
    ELSE IF AnyIn(BILLING_ISSUE_KEYWORDS, message_lower) THEN BILLING_ISSUE
    ELSE IF AnyIn(intent_keywords(FAQ), message_lower) THEN FAQ
    ELSE FAQ

(***************************************************************************)
(* DialogueStateManager: extraction, slot filling and the workflows.       *)
(*                                                                         *)
(* A world w is the state the manager reads and writes: the fields of the  *)
(* session's DialogueState and session.persistent_entities.                *)
(*   w.active_intent           an Intent or None                           *)
(*   w.pending_slot            "order_id", "customer_id" or None           *)
(*   w.context                 dict: order_id -> int, customer_id -> str   *)
(*   w.workflow_completed      bool                                        *)
(*   w.has_persistent_entities hasattr(session, 'persistent_entities')     *)
(*   w.persistent_entities     dict: order_number -> str                   *)
(* A handler maps (message, w, env) to an outcome: the world after it, the *)
(* dict it returns (or that it raised), the repository lookup it made and  *)
(* whether it called DialogueState.reset.  env holds what the injected     *)
(* collaborators do during the call.                                       *)
(***************************************************************************)
\* The order ids the order repository knows (read-only reference data).
OrderDataset == {45, 123}

\* The customer ids the customer repository knows.
CustomerDataset == {"CUST0045"}

\* DialogueState() together with a session's empty persistent_entities.
NewWorld(has_persistent_entities) ==
    [active_intent |-> None, pending_slot |-> None, context |-> EmptyDict,
     workflow_completed |-> FALSE,
     has_persistent_entities |-> has_persistent_entities,
     persistent_entities |-> EmptyDict]

\* A reset that leaves pending_slot as it is.
ResetKeepsPendingSlot(w) ==
    [w EXCEPT !.active_intent = None, !.context = EmptyDict, !.workflow_completed = FALSE]

\* DialogueState.reset
reset(w) ==
    [w EXCEPT !.active_intent = None, !.pending_slot = None,
              !.context = EmptyDict, !.workflow_completed = FALSE]

\* The dict a handler returns.
Result(response, conversation_state) ==
    [response |-> response, conversation_state |-> conversation_state,
     is_human_flow |-> TRUE]

\* The text of an answer built from repository data (product, amount, status):
\* the model keeps which answer it is and the id it is about.
AnswerAbout(conversation_state, id) == "<" \o conversation_state \o " " \o id \o ">"

NoResult == Result(None, None)

NoLookup == [repo |-> None, key |-> None, outcome |-> None]

Lookup(repo, key, outcome) == [repo |-> repo, key |-> key, outcome |-> outcome]

\* A handler returning `result`.
Return(w, result, lookup, didReset) ==
    [w |-> w, result |-> result, raised |-> FALSE, lookup |-> lookup, reset |-> didReset]

\* A handler left by an exception of a collaborator.
Raise(w, lookup) ==
    [w |-> w, result |-> NoResult, raised |-> TRUE, lookup |-> lookup, reset |-> FALSE]

\* _complete_workflow, after workflow_completed = True
_complete_workflow(w) == reset([w EXCEPT !.workflow_completed = TRUE])

\* DialogueStateManager._extract_order_id
_extract_order_id(message) ==
    LET run == FirstDigitRun(message) IN
    IF run # "" THEN SomeInt(ParseInt(run)) ELSE NoInt

\* re.search(r'CUST\d+', s): the leftmost "CUST" followed by a digit, with the
\* digits that follow it; None when there is none.
SearchCustId(s) ==
    LET starts == {i \in 1..(Len(s) - 4) :
                      SubSeq(s, i, i + 3) = "CUST" /\ IsDigit(CharAt(s, i + 4))} IN
    IF starts = {} THEN None
    ELSE LET i == CHOOSE x \in starts : \A y \in starts : x <= y
         IN  SubSeq(s, i, DigitRunEnd(s, i + 4))

\* DialogueStateManager._extract_customer_id
_extract_customer_id(message) == SearchCustId(Upper(message))

\* get_order_by_id_func(order_id): "found", "miss" or "raise".
get_order_by_id(order_id, env) ==
    IF env.repo_raises THEN "raise"
    ELSE IF order_id \in OrderDataset THEN "found" ELSE "miss"

\* get_customer_by_id(customer_id) behind its import: "found", "miss", "raise",
\* or "import_error" when data.enhanced_data_access cannot be imported.
get_customer_by_id(customer_id, env) ==
    IF ~env.enhanced_mode THEN "import_error"
    ELSE IF env.repo_raises THEN "raise"
    ELSE IF customer_id \in CustomerDataset THEN "found" ELSE "miss"

\* The not-found branch of a workflow calling DialogueState.reset.
LookupMissResets(w, slot) == reset(w)

\* The not-found branch leaving the value in the context.
LookupMissKeepsValue(w, slot) == [w EXCEPT !.pending_slot = slot]

\* The not-found branch shared by the workflows: the value is popped from the
\* context and the slot is pending again.
LookupMiss(w, slot) ==
    [w EXCEPT !.context = DictPop(@, slot), !.pending_slot = slot]

\* dialogue_state.context[key] = value
StoreInContext(w, key, value) == [w EXCEPT !.context = DictSet(@, key, value)]

\* session.persistent_entities['order_number'] = str(order_id), when the
\* session has persistent_entities.
StoreInSession(w, order_id) ==
    IF w.has_persistent_entities
    THEN [w EXCEPT !.persistent_entities = DictSet(@, "order_number", IntToStr(order_id))]
    ELSE w

\* _handle_customer_lookup_workflow once the repository has answered.
CustomerAnswer(w, lookup) ==
    IF lookup.outcome = "import_error"
    THEN Return(w,
                Result("Customer lookup feature is not available at the moment. Please try again later.",
                       "customer_lookup_error"),
                lookup, FALSE)
    ELSE IF lookup.outcome = "raise" THEN Raise(w, lookup)
    ELSE IF lookup.outcome = "found"
    THEN Return(_complete_workflow(w),
                Result(AnswerAbout("customer_lookup_provided", lookup.key),
                       "customer_lookup_provided"),
                lookup, TRUE)
    ELSE Return(LookupMiss(w, "customer_id"),
                Result("I couldn't find customer " \o lookup.key
                          \o " in our records. Please check the customer ID and try again.",
                       "customer_lookup_not_found_retry"),
                lookup, FALSE)

\* _handle_customer_lookup_workflow once the context holds the customer id.
CustomerLookup(w, env) ==
    CustomerAnswer(w, Lookup("customer", w.context["customer_id"],
                             get_customer_by_id(w.context["customer_id"], env)))

\* DialogueStateManager._handle_customer_lookup_workflow
_handle_customer_lookup_workflow(message, w, env) ==
    IF "customer_id" \in DOMAIN w.context THEN CustomerLookup(w, env)
    ELSE IF _extract_customer_id(message) # None
    THEN CustomerLookup(StoreInContext(w, "customer_id", _extract_customer_id(message)), env)
    ELSE Return([w EXCEPT !.pending_slot = "customer_id"],
                Result("Please provide the customer ID you want to look up (e.g., CUST0001, CUST000714).",
                       "customer_lookup_awaiting_id"),
                NoLookup, FALSE)

\* An order workflow once the repository has answered.
OrderAnswer(w, lookup, foundState, missState) ==
    IF lookup.outcome = "raise" THEN Raise(w, lookup)
    ELSE IF lookup.outcome = "found"
    THEN Return(_complete_workflow(w),
                Result(AnswerAbout(foundState, lookup.key), foundState),
                lookup, TRUE)
    ELSE Return(LookupMiss(w, "order_id"),
                Result("I couldn't find that order. Please recheck the order number.", missState),
                lookup, FALSE)

\* An order workflow once the context holds the order id.
OrderLookup(w, env, foundState, missState) ==
    OrderAnswer(w, Lookup("order", IntToStr(w.context["order_id"]),
                          get_order_by_id(w.context["order_id"], env)),
                foundState, missState)

\* The three workflows that read only the dialogue context for the order id
\* (_handle_order_detail_workflow, _handle_return_workflow,
\* _handle_status_workflow) have one shape; they differ in their texts.
OrderWorkflow(message, w, env, askText, askState, foundState, missState) ==
    IF "order_id" \in DOMAIN w.context THEN OrderLookup(w, env, foundState, missState)
    ELSE IF TruthyInt(_extract_order_id(message))
    THEN OrderLookup(StoreInContext(w, "order_id", _extract_order_id(message)[1]), env,
                     foundState, missState)
    ELSE Return([w EXCEPT !.pending_slot = "order_id"], Result(askText, askState),
                NoLookup, FALSE)

\* DialogueStateManager._handle_order_detail_workflow
_handle_order_detail_workflow(message, w, env) ==
    OrderWorkflow(message, w, env,
        "Please provide your order number so I can get the details for you.",
        "order_detail_awaiting_order", "order_detail_provided",
        "order_detail_not_found_retry")

\* DialogueStateManager._handle_return_workflow
_handle_return_workflow(message, w, env) ==
    OrderWorkflow(message, w, env,
        "I can help you return your order. Please provide your order number so I can check the return eligibility.",
        "return_awaiting_order", "return_processed", "return_order_not_found_retry")

\* DialogueStateManager._handle_status_workflow
_handle_status_workflow(message, w, env) ==
    OrderWorkflow(message, w, env,
        "I can help you track your order. Please provide your order number to check the current status.",
        "status_awaiting_order", "status_provided", "status_order_not_found_retry")

\* Which of its answers the billing workflow gives for a found order, chosen
\* by the words of the message.
BillingAnswer(message_lower) ==
    IF AnyIn({"no", "not yet", "haven't received", "still waiting"}, message_lower)
    THEN "billing_refund_escalation"
    ELSE IF AnyIn({"refund", "refunded", "money back", "didn't get"}, message_lower)
    THEN "billing_refund_inquiry"
    ELSE IF AnyIn({"charged twice", "double charge", "charged multiple"}, message_lower)
    THEN "billing_double_charge"
    ELSE "billing_general_inquiry"

\* The billing workflow forgetting a not-found order id: popped from the
\* context, and from persistent_entities when that is where it is stored.
BillingForget(w, order_id) ==
    IF /\ w.has_persistent_entities
       /\ "order_number" \in DOMAIN w.persistent_entities
       /\ IntToStr(order_id) = w.persistent_entities["order_number"]
    THEN [w EXCEPT !.persistent_entities = DictPop(@, "order_number")]
    ELSE w

\* _handle_billing_workflow once the repository has answered.
BillingResult(w, order_id, lookup, answer) ==
    IF lookup.outcome = "raise" THEN Raise(w, lookup)
    ELSE IF lookup.outcome = "found"
    THEN Return([w EXCEPT !.pending_slot = None],
                Result(AnswerAbout(answer, lookup.key), answer),
                lookup, FALSE)
    ELSE Return(BillingForget(LookupMiss(w, "order_id"), order_id),
                Result("I couldn't find that order. Please recheck the order number.",
                       "billing_order_not_found_retry"),
                lookup, FALSE)

\* _handle_billing_workflow once it has an order id.
BillingLookup(message, w, order_id, env) ==
    BillingResult(w, order_id,
                  Lookup("order", IntToStr(order_id), get_order_by_id(order_id, env)),
                  BillingAnswer(Lower(message)))

\* The first step of _handle_billing_workflow without the look at the session's
\* persistent entities.
BillingIgnoresSession(w) == w

\* The first step of _handle_billing_workflow: without an order id in the
\* context, the digits of persistent_entities['order_number'] are stored there.
BillingReuseFromSession(w) ==
    IF /\ "order_id" \notin DOMAIN w.context
       /\ w.has_persistent_entities
       /\ "order_number" \in DOMAIN w.persistent_entities
       /\ FirstDigitRun(w.persistent_entities["order_number"]) # ""
    THEN StoreInContext(w, "order_id",
                        ParseInt(FirstDigitRun(w.persistent_entities["order_number"])))
    ELSE w

\* _handle_billing_workflow after that step; the local order_id is then the
\* order id of the context, None without one.
BillingWithContext(message, w, env) ==
    IF "order_id" \in DOMAIN w.context /\ w.context["order_id"] # 0
    THEN BillingLookup(message, w, w.context["order_id"], env)
    ELSE IF TruthyInt(_extract_order_id(message))
    THEN BillingLookup(message,
                       StoreInSession(StoreInContext(w, "order_id", _extract_order_id(message)[1]),
                                      _extract_order_id(message)[1]),
                       _extract_order_id(message)[1], env)
    ELSE Return([w EXCEPT !.pending_slot = "order_id"],
                Result("I can help you with billing issues. Please provide your order number so I can look into this for you.",
                       "billing_awaiting_order"),
                NoLookup, FALSE)

\* DialogueStateManager._handle_billing_workflow
_handle_billing_workflow(message, w, env) ==
    BillingWithContext(message, BillingReuseFromSession(w), env)

\* What get_faq_answer_func(message) returns when it finds an answer.
FaqAnswer(message) == "<faq " \o message \o ">"

\* DialogueStateManager._handle_faq_workflow
_handle_faq_workflow(message, w, env) ==
    Return(_complete_workflow(w),
           Result(IF env.faq_found THEN FaqAnswer(message)
                  ELSE "I can help you with orders, returns, billing issues, and general questions. What would you like assistance with?",
                  "faq_answered"),
           NoLookup, TRUE)

\* DialogueStateManager._handle_fallback
_handle_fallback(message, w, env) ==
    IF env.faq_found
    THEN Return(w, Result(FaqAnswer(message), "faq_fallback"), NoLookup, FALSE)
    ELSE Return(w, Result(AnswerAbout("generic_help", "menu"), "generic_help"), NoLookup, FALSE)

\* DialogueStateManager._route_workflow
_route_workflow(message, w, env) ==
    IF w.active_intent = CUSTOMER_LOOKUP THEN _handle_customer_lookup_workflow(message, w, env)
    ELSE IF w.active_intent = ORDER_DETAIL_QUERY THEN _handle_order_detail_workflow(message, w, env)
    ELSE IF w.active_intent = ORDER_STATUS THEN _handle_status_workflow(message, w, env)
    ELSE IF w.active_intent = RETURN_ORDER THEN _handle_return_workflow(message, w, env)
    ELSE IF w.active_intent = BILLING_ISSUE THEN _handle_billing_workflow(message, w, env)
    ELSE _handle_faq_workflow(message, w, env)

\* The slot-filling branch for a message without the value resetting the
\* dialogue state.
ExtractionMissResets(w) == reset(w)

\* The slot-filling branch for a message without the value: the dialogue state
\* is not written.
ExtractionMiss(w) == w

\* The slot-filling branch for a message with the value, locking the intent
\* detected in that message.
SlotFilledRelocks(message, w) ==
    IF w.pending_slot = "order_id"
    THEN [StoreInSession(StoreInContext(w, "order_id", _extract_order_id(message)[1]),
                         _extract_order_id(message)[1])
             EXCEPT !.pending_slot = None, !.active_intent = _detect_intent(message)]
    ELSE [StoreInContext(w, "customer_id", _extract_customer_id(message))
             EXCEPT !.pending_slot = None]

\* The slot-filling branch for a message with the value: it is stored, the
\* slot is no longer pending.
SlotFilled(message, w) ==
    IF w.pending_slot = "order_id"
    THEN [StoreInSession(StoreInContext(w, "order_id", _extract_order_id(message)[1]),
                         _extract_order_id(message)[1])
             EXCEPT !.pending_slot = None]
    ELSE [StoreInContext(w, "customer_id", _extract_customer_id(message))
             EXCEPT !.pending_slot = None]

\* DialogueStateManager._handle_slot_filling
_handle_slot_filling(message, w, env) ==
    IF w.pending_slot \notin {"order_id", "customer_id"}
    THEN Return(w,
                Result("I didn't understand that. Could you please provide the information I requested?",
                       "slot_filling_error"),
                NoLookup, FALSE)
    ELSE IF \/ w.pending_slot = "order_id" /\ TruthyInt(_extract_order_id(message))
            \/ w.pending_slot = "customer_id" /\ _extract_customer_id(message) # None
    THEN _route_workflow(message, SlotFilled(message, w), env)
    ELSE IF w.pending_slot = "order_id"
    THEN Return(ExtractionMiss(w),
                Result("I need your order number to help you. Please provide your order number (e.g., 45, ORD45, or #45).",
                       "awaiting_order_id"),
                NoLookup, FALSE)
    ELSE Return(ExtractionMiss(w),
                Result("I need a valid customer ID to help you. Please provide your customer ID (e.g., CUST0001, CUST000714).",
                       "awaiting_customer_id"),
                NoLookup, FALSE)

\* The intent lock of process_message: a detected intent other than NONE
\* becomes the active intent.
LockIntent(w, detected_intent) ==
    IF detected_intent # NONE THEN [w EXCEPT !.active_intent = detected_intent] ELSE w

\* process_message running intent detection on every message.
ProcessMessageRedetects(message, w, env) ==
    IF w.pending_slot # None THEN _handle_slot_filling(message, w, env)
    ELSE _route_workflow(message, LockIntent(w, _detect_intent(message)), env)

\* The end of process_message: the workflow of the active intent, the fallback
\* without one.
RouteOrFallback(message, w, env) ==
    IF w.active_intent # None THEN _route_workflow(message, w, env)
    ELSE _handle_fallback(message, w, env)

\* DialogueStateManager.process_message
process_message(message, w, env) ==
    IF w.pending_slot # None THEN _handle_slot_filling(message, w, env)
    ELSE RouteOrFallback(message,
                         IF w.active_intent = None
                         THEN LockIntent(w, _detect_intent(message))
                         ELSE w,
                         env)

\* check_completion_keywords answering yes to every message.
CompletionOnAnyMessage(message) == TRUE

\* DialogueStateManager.check_completion_keywords
check_completion_keywords(message) ==
    AnyIn({"thank you", "thanks", "that helps", "perfect", "great", "solved",
           "resolved", "done", "that's all", "no more questions"},
          Lower(message))

\* DialogueStateManager.handle_completion; a conversation_state of None is the
\* None it returns for a message without a completion keyword.
handle_completion(message, w) ==
    IF check_completion_keywords(message)
    THEN Return(reset(w),
                Result("You're welcome! Feel free to reach out if you need any more help.",
                       "conversation_completed"),
                NoLookup, TRUE)
    ELSE Return(w, NoResult, NoLookup, FALSE)

\* app.handle_user_message after a process_message that returned: the result
\* of handle_completion, when it has one, replaces that of process_message.
CompletionCheck(pm, hc) ==
    Return(hc.w, IF hc.result # NoResult THEN hc.result ELSE pm.result,
           pm.lookup, pm.reset \/ hc.reset)

\* app.handle_user_message after process_message: an exception is caught and
\* answered from the FAQ, otherwise handle_completion sees the same message.
AfterProcessMessage(message, env, pm) ==
    IF pm.raised
    THEN Return(pm.w,
                Result(IF env.faq_found THEN FaqAnswer(message)
                       ELSE "I'm here to help! I can assist with order tracking, returns, billing issues, and general questions. What would you like help with?",
                       "fallback"),
                pm.lookup, pm.reset)
    ELSE CompletionCheck(pm, handle_completion(message, pm.w))

\* The dialogue part of app.handle_user_message: process_message, then
\* handle_completion on the same message.
handle_user_message(message, w, env) ==
    AfterProcessMessage(message, env, process_message(message, w, env))

(***************************************************************************)
(* SpecDetect: _detect_intent on every message of up to MaxWords words of  *)
(* a vocabulary that holds keywords of every category, keywords that       *)
(* contain a keyword of another category, mixed case, ids and plain words. *)
(***************************************************************************)
DetectVocab ==
    {"Cust", "price", "wrong item", "cancel", "not what i ordered", "track",
     "ETA", "charged", "Refund", "help", "hello", "45", "exchange this item"}

RECURSIVE MessagesUpTo(_, _)
\* The messages of 1..n words of vocab, joined by single spaces.
MessagesUpTo(vocab, n) ==
    IF n <= 1 THEN vocab
    ELSE LET shorter == MessagesUpTo(vocab, n - 1)
         IN  shorter \cup {s \o " " \o w : s \in shorter, w \in vocab}

DetectMessages == MessagesUpTo(DetectVocab, MaxWords)

(***************************************************************************)
(* The order lifecycle: OrderStatus, StateMachine and OrderState of        *)
(* agents/state_machine.py.                                                *)
(***************************************************************************)
UNKNOWN == "unknown"

PROCESSING == "processing"

SHIPPED == "shipped"

DELIVERED == "delivered"

CANCELLED == "cancelled"

REFUNDED == "refunded"

REPLACEMENT_SENT == "replacement_sent"

OrderStatus ==
    {UNKNOWN, PROCESSING, SHIPPED, DELIVERED, CANCELLED, REFUNDED, REPLACEMENT_SENT}

\* ORDER_TRANSITIONS with a replacement allowed after a refund.
OrderTransitionsRefundReopens ==
    [s \in OrderStatus |->
        CASE s = UNKNOWN -> {PROCESSING, CANCELLED}
          [] s = PROCESSING -> {SHIPPED, CANCELLED, REPLACEMENT_SENT}
          [] s = SHIPPED -> {DELIVERED, REFUNDED, REPLACEMENT_SENT}
          [] s = DELIVERED -> {REFUNDED, REPLACEMENT_SENT}
          [] s = CANCELLED -> {}
          [] s = REFUNDED -> {REPLACEMENT_SENT}
          [] s = REPLACEMENT_SENT -> {DELIVERED}]

\* ORDER_TRANSITIONS with a replacement that can go back to processing.
OrderTransitionsReplacementRestarts ==
    [s \in OrderStatus |->
        CASE s = UNKNOWN -> {PROCESSING, CANCELLED}
          [] s = PROCESSING -> {SHIPPED, CANCELLED, REPLACEMENT_SENT}
          [] s = SHIPPED -> {DELIVERED, REFUNDED, REPLACEMENT_SENT}
          [] s = DELIVERED -> {REFUNDED, REPLACEMENT_SENT}
          [] s = CANCELLED -> {}
          [] s = REFUNDED -> {}
          [] s = REPLACEMENT_SENT -> {DELIVERED, PROCESSING}]

\* StateMachine.ORDER_TRANSITIONS
ORDER_TRANSITIONS ==
    [s \in OrderStatus |->
        CASE s = UNKNOWN -> {PROCESSING, CANCELLED}
          [] s = PROCESSING -> {SHIPPED, CANCELLED, REPLACEMENT_SENT}
          [] s = SHIPPED -> {DELIVERED, REFUNDED, REPLACEMENT_SENT}
          [] s = DELIVERED -> {REFUNDED, REPLACEMENT_SENT}
          [] s = CANCELLED -> {}
          [] s = REFUNDED -> {}
          [] s = REPLACEMENT_SENT -> {DELIVERED}]

\* can_transition_order allowing a cancellation from every status.
CanTransitionOrderCancelAnywhere(from_status, to_status) ==
    to_status = CANCELLED \/ to_status \in ORDER_TRANSITIONS[from_status]

\* StateMachine.can_transition_order
can_transition_order(from_status, to_status) ==
    IF from_status \in DOMAIN ORDER_TRANSITIONS
    THEN to_status \in ORDER_TRANSITIONS[from_status]
    ELSE FALSE

\* is_order_cancellable that still allows a cancellation once the order has shipped.
IsOrderCancellableAfterShipping(status) == status \in {UNKNOWN, PROCESSING, SHIPPED}

\* StateMachine.is_order_cancellable
is_order_cancellable(status) == status \in {UNKNOWN, PROCESSING}

\* StateMachine.is_order_shipped
is_order_shipped(status) == status \in {SHIPPED, DELIVERED}

\* StateMachine.validate_order_state
validate_order_state(status, shipped, cancellable) ==
    IF is_order_shipped(status) /\ cancellable THEN FALSE
    ELSE IF ~is_order_shipped(status) /\ shipped THEN FALSE
    ELSE IF is_order_cancellable(status) # cancellable THEN FALSE
    ELSE TRUE

\* OrderState.__init__ (the timestamps created_at and last_updated are left out:
\* nothing reads them but to_dict).
NewOrderState ==
    [status |-> UNKNOWN, delivery_eta |-> None, tracking_number |-> None]

\* transition_to without the test of the transition table.
TransitionToUnchecked(self, new_status) ==
    [self |-> [self EXCEPT !.status = new_status], returned |-> TRUE]

\* OrderState.transition_to: the object after the call and the value returned.
transition_to(self, new_status) ==
    IF can_transition_order(self.status, new_status)
    THEN [self |-> [self EXCEPT !.status = new_status], returned |-> TRUE]
    ELSE [self |-> self, returned |-> FALSE]

\* OrderState.update_tracking: the object after the call.
update_tracking(self, tracking_number, delivery_eta) ==
    IF delivery_eta # None
    THEN [self EXCEPT !.tracking_number = tracking_number, !.delivery_eta = delivery_eta]
    ELSE [self EXCEPT !.tracking_number = tracking_number]

(***************************************************************************)
(* ResponsePolicyLayer of agents/response_templates.py.  A template is the *)
(* pair of the text before and the text after its {order_id}; the en dash  *)
(* of the source texts is written "-".                                     *)
(***************************************************************************)
\* ResponsePolicyLayer.RESPONSE_TEMPLATES
RESPONSE_TEMPLATES ==
    <<"refund", "processing">> :>
        <<"I'm sorry for the inconvenience. I've successfully initiated a refund for order #",
          ". The amount will be credited within 3-5 business days.">> @@
    <<"refund", "unknown">> :>
        <<"I'm sorry for the inconvenience. I've successfully initiated a refund for order #",
          ". The amount will be credited within 3-5 business days.">> @@
    <<"refund", "shipped">> :>
        <<"I'm sorry for the inconvenience. Order #",
          " has already been shipped, so a refund isn't possible right now. I can help with a replacement or return after delivery.">> @@
    <<"refund", "delivered">> :>
        <<"I'm sorry for the inconvenience. Order #",
          " has already been delivered, so a refund isn't possible right now. I can help with a return process instead.">> @@
    <<"refund", "cancelled">> :>
        <<"Order #",
          " has already been cancelled and a refund is being processed. You'll receive the credit within 3-5 business days.">> @@
    <<"refund", "refunded">> :>
        <<"Order #",
          " has already been refunded. The credit should appear in your account within 3-5 business days.">> @@
    <<"replacement", "processing">> :>
        <<"Sorry about the mix-up. I've initiated a replacement for order #",
          ". The correct item will be delivered within 2-3 business days.">> @@
    <<"replacement", "unknown">> :>
        <<"Sorry about the mix-up. I've initiated a replacement for order #",
          ". The correct item will be delivered within 2-3 business days.">> @@
    <<"replacement", "shipped">> :>
        <<"Sorry about the mix-up. Since order #",
          " has already shipped, I've arranged for a replacement to be sent. You'll receive the correct item within 2-3 business days.">> @@
    <<"replacement", "delivered">> :>
        <<"Sorry about the mix-up. I've initiated a replacement for order #",
          ". The correct item will be delivered within 2-3 business days.">> @@
    <<"replacement", "cancelled">> :>
        <<"I apologize for the inconvenience. Order #",
          " has been cancelled, so I can't arrange a replacement. I can help process a new order instead.">> @@
    <<"replacement", "refunded">> :>
        <<"I apologize for the inconvenience. Order #",
          " has been refunded, so I can't arrange a replacement. I can help you place a new order instead.">> @@
    <<"cancel", "processing">> :>
        <<"Your order #",
          " has been successfully cancelled. A full refund will be processed within 3-5 business days.">> @@
    <<"cancel", "unknown">> :>
        <<"Your order #",
          " has been successfully cancelled. A full refund will be processed within 3-5 business days.">> @@
    <<"cancel", "shipped">> :>
        <<"I'm sorry, but order #",
          " has already been shipped and cannot be cancelled. I can help arrange a return after delivery.">> @@
    <<"cancel", "delivered">> :>
        <<"I'm sorry, but order #",
          " has already been delivered and cannot be cancelled. I can help with the return process instead.">> @@
    <<"cancel", "cancelled">> :>
        <<"Order #",
          " has already been cancelled. A full refund will be processed within 3-5 business days.">> @@
    <<"cancel", "refunded">> :>
        <<"Order #",
          " has already been cancelled and refunded. The credit should appear in your account within 3-5 business days.">> @@
    <<"general", "processing">> :>
        <<"I've successfully processed your request for order #",
          ". You'll receive confirmation and updates shortly.">> @@
    <<"general", "unknown">> :>
        <<"I've successfully processed your request for order #",
          ". You'll receive confirmation and updates shortly.">> @@
    <<"general", "shipped">> :>
        <<"I understand your concern about order #",
          ". Since it has already shipped, I've noted your request and our team will follow up with you shortly.">> @@
    <<"general", "delivered">> :>
        <<"I understand your concern about order #",
          ". Since it has been delivered, I've noted your request and our team will follow up with you shortly.">> @@
    <<"general", "cancelled">> :>
        <<"Order #",
          " has already been cancelled. If you need further assistance, please let me know.">> @@
    <<"general", "refunded">> :>
        <<"Order #",
          " has already been refunded. The credit should appear in your account within 3-5 business days.">> @@
    <<"tracking", "processing">> :>
        <<"Order #",
          " is currently being processed and will ship soon.">> @@
    <<"tracking", "unknown">> :>
        <<"Order #",
          " is currently being processed and will ship soon.">> @@
    <<"tracking", "shipped">> :>
        <<"Order #",
          " has been shipped and is on the way. You should receive it by tomorrow.">> @@
    <<"tracking", "delivered">> :>
        <<"Order #",
          " has been delivered successfully.">> @@
    <<"tracking", "cancelled">> :>
        <<"Order #",
          " has been cancelled.">> @@
    <<"tracking", "refunded">> :>
        <<"Order #",
          " has been refunded.">>

\* ResponsePolicyLayer.MISSING_INFO_RESPONSES
MISSING_INFO_RESPONSES ==
    [order_id |-> "I can help with that. Please share your order number so I can proceed.",
     issue |-> "I can help with your order. Could you tell me what the issue is? (wrong item, delivery problem, or general concern)",
     resolution |-> "I understand there's an issue with your order. How would you like me to help? (refund, replacement, or cancellation)"]

\* ResponsePolicyLayer.POST_RESOLUTION_RESPONSE
POST_RESOLUTION_RESPONSE == "Is there anything else I can help you with?"

\* template.format(order_id=order_id)
Format(template, order_id) == template[1] \o order_id \o template[2]

\* The last fallback of get_response.
FinalFallbackTemplate ==
    <<"I've processed your request for order #", ". You'll receive confirmation shortly.">>

\* The template chosen without the fallback to the general row.
TemplateForWithoutGeneral(resolution_type, order_status) ==
    IF <<resolution_type, order_status>> \in DOMAIN RESPONSE_TEMPLATES
    THEN RESPONSE_TEMPLATES[<<resolution_type, order_status>>]
    ELSE FinalFallbackTemplate

\* get_response once its inputs are normalised: the template of the pair, or
\* the general one for the status, or the final fallback.
TemplateFor(resolution_type, order_status) ==
    IF <<resolution_type, order_status>> \in DOMAIN RESPONSE_TEMPLATES
    THEN RESPONSE_TEMPLATES[<<resolution_type, order_status>>]
    ELSE IF <<"general", order_status>> \in DOMAIN RESPONSE_TEMPLATES
    THEN RESPONSE_TEMPLATES[<<"general", order_status>>]
    ELSE FinalFallbackTemplate

\* get_response keeping the order id of the call before it.
GetResponseRemembersOrder(resolution_type, order_status, order_id) ==
    Format(TemplateFor(IF resolution_type \in {None, ""} THEN "general"
                       ELSE Lower(resolution_type),
                       IF order_status \in {None, ""} THEN "unknown"
                       ELSE Lower(order_status)),
           IF policy.call = "get_response" THEN policy.order_id ELSE order_id)

\* ResponsePolicyLayer.get_response
get_response(resolution_type, order_status, order_id) ==
    Format(TemplateFor(IF resolution_type \in {None, ""} THEN "general"
                       ELSE Lower(resolution_type),
                       IF order_status \in {None, ""} THEN "unknown"
                       ELSE Lower(order_status)),
           order_id)

\* ResponsePolicyLayer.get_missing_info_response
get_missing_info_response(missing_info_type) ==
    IF missing_info_type \in DOMAIN MISSING_INFO_RESPONSES
    THEN MISSING_INFO_RESPONSES[missing_info_type]
    ELSE "I need a bit more information to help you with your request."

\* ResponsePolicyLayer.get_post_resolution_response
get_post_resolution_response == POST_RESOLUTION_RESPONSE

\* The second half of validate_response: no question unless the response is
\* one of the allowed ones.
NoNewQuestion(response, response_lower) ==
    AnyIn({"?", "could you", "can you", "please provide", "what", "how", "when", "where"},
          response_lower)
        => response \in {POST_RESOLUTION_RESPONSE} \cup
                        {MISSING_INFO_RESPONSES[k] : k \in DOMAIN MISSING_INFO_RESPONSES}

\* ResponsePolicyLayer.validate_response
validate_response(response, order_id) ==
    /\ response # "" /\ response # None
    /\ order_id # "" /\ order_id # None
    /\ Contains(response, order_id) \/ response = POST_RESOLUTION_RESPONSE
    /\ NoNewQuestion(response, Lower(response))

(***************************************************************************)
(* NLPProcessor.detect_complete_request of agents/nlp_processor.py.  The   *)
(* four order-id patterns are matched by scanning the message.             *)
(***************************************************************************)
\* [A-Z0-9] under re.IGNORECASE
IsAlnum(c) == IndexIn(UpperAlpha, c) # 0 \/ IndexIn(LowerAlpha, c) # 0 \/ IsDigit(c)

\* [A-Z] under re.IGNORECASE
IsLetter(c) == IndexIn(UpperAlpha, c) # 0 \/ IndexIn(LowerAlpha, c) # 0

\* \w
IsWordChar(c) == IsAlnum(c) \/ c = "_"

\* \s
IsSpace(c) == c \in {" ", "\t", "\n", "\r"}

\* The number of characters from position i on, n at most, that are all kind
\* "alnum", "letter" or "digit".
RECURSIVE RunLen(_, _, _, _)
RunLen(s, i, n, kind) ==
    IF n = 0 \/ i > Len(s) THEN 0
    ELSE IF CASE kind = "alnum" -> IsAlnum(CharAt(s, i))
              [] kind = "letter" -> IsLetter(CharAt(s, i))
              [] OTHER -> IsDigit(CharAt(s, i))
    THEN 1 + RunLen(s, i + 1, n - 1, kind)
    ELSE 0

\* The first position from i on that holds no white space.
RECURSIVE SkipSpaces(_, _)
SkipSpaces(s, i) ==
    IF i <= Len(s) /\ IsSpace(CharAt(s, i)) THEN SkipSpaces(s, i + 1) ELSE i

\* \b between positions i - 1 and i of s.
WordBoundary(s, i) ==
    (i > 1 /\ i - 1 <= Len(s) /\ IsWordChar(CharAt(s, i - 1)))
        # (i <= Len(s) /\ IsWordChar(CharAt(s, i)))

\* The least element of a non-empty set of positions.
Leftmost(positions) == CHOOSE i \in positions : \A j \in positions : i <= j

\* ([A-Z0-9]{3,8}) at position i: where the group ends, 0 without a match.
IdGroupEnd(s, i) ==
    IF RunLen(s, i, 8, "alnum") >= 3 THEN i + RunLen(s, i, 8, "alnum") - 1 ELSE 0

\* Where the group of order\s*#?\s*([A-Z0-9]{3,8}) starts for an "order" at
\* position i: after the white space and the "#" that follow it.
AfterOrderWord(s, i) ==
    IF SkipSpaces(s, i + 5) <= Len(s) /\ CharAt(s, SkipSpaces(s, i + 5)) = "#"
    THEN SkipSpaces(s, SkipSpaces(s, i + 5) + 1)
    ELSE SkipSpaces(s, i + 5)

\* re.search(r"order\s*#?\s*([A-Z0-9]{3,8})", s, re.IGNORECASE): group 1 of
\* the leftmost match, None without one.
SearchOrderWordId(s) ==
    LET starts == {i \in 1..(Len(s) - 4) :
                      /\ Lower(SubSeq(s, i, i + 4)) = "order"
                      /\ IdGroupEnd(s, AfterOrderWord(s, i)) # 0}
    IN  IF starts = {} THEN None
        ELSE SubSeq(s, AfterOrderWord(s, Leftmost(starts)),
                    IdGroupEnd(s, AfterOrderWord(s, Leftmost(starts))))

\* re.search(r"#([A-Z0-9]{3,8})", s, re.IGNORECASE)
SearchHashId(s) ==
    LET starts == {i \in 1..Len(s) : CharAt(s, i) = "#" /\ IdGroupEnd(s, i + 1) # 0}
    IN  IF starts = {} THEN None
        ELSE SubSeq(s, Leftmost(starts) + 1, IdGroupEnd(s, Leftmost(starts) + 1))

\* \b(\d{4,8})\b at position i: a run of 4 to 8 digits between two word
\* boundaries; the length of the run, 0 without a match.
DigitWordLen(s, i) ==
    IF /\ WordBoundary(s, i)
       /\ RunLen(s, i, 9, "digit") \in 4..8
       /\ WordBoundary(s, i + RunLen(s, i, 9, "digit"))
    THEN RunLen(s, i, 9, "digit")
    ELSE 0

\* re.search(r"\b(\d{4,8})\b", s, re.IGNORECASE)
SearchDigitWord(s) ==
    LET starts == {i \in 1..Len(s) : DigitWordLen(s, i) # 0}
    IN  IF starts = {} THEN None
        ELSE SubSeq(s, Leftmost(starts), Leftmost(starts) + DigitWordLen(s, Leftmost(starts)) - 1)

\* \b([A-Z]{2,3}\d{4,6})\b at position i: 2 or 3 letters, then 4 to 6 digits,
\* between two word boundaries; the length of the match, 0 without one.
PrefixedIdLen(s, i) ==
    IF /\ WordBoundary(s, i)
       /\ RunLen(s, i, 4, "letter") \in 2..3
       /\ RunLen(s, i + RunLen(s, i, 4, "letter"), 7, "digit") \in 4..6
       /\ WordBoundary(s, i + RunLen(s, i, 4, "letter")
                              + RunLen(s, i + RunLen(s, i, 4, "letter"), 7, "digit"))
    THEN RunLen(s, i, 4, "letter") + RunLen(s, i + RunLen(s, i, 4, "letter"), 7, "digit")
    ELSE 0

\* re.search(r"\b([A-Z]{2,3}\d{4,6})\b", s, re.IGNORECASE)
SearchPrefixedId(s) ==
    LET starts == {i \in 1..Len(s) : PrefixedIdLen(s, i) # 0}
    IN  IF starts = {} THEN None
        ELSE SubSeq(s, Leftmost(starts), Leftmost(starts) + PrefixedIdLen(s, Leftmost(starts)) - 1)

\* The test a match must pass to be taken as the order id: not a common word,
\* and all digits, or three or more characters with a digit among them.
IsOrderId(potential_id) ==
    /\ potential_id # None
    /\ Lower(potential_id) \notin
           {"is", "my", "the", "and", "but", "got", "want", "need", "status", "arrive",
            "delivery", "order", "track", "where", "when", "will"}
    /\ \/ \A i \in 1..Len(potential_id) : IsDigit(CharAt(potential_id, i))
       \/ /\ Len(potential_id) >= 3
          /\ \E i \in 1..Len(potential_id) : IsDigit(CharAt(potential_id, i))

\* The loop over order_patterns: the group of the first pattern whose
\* leftmost match passes the test, None when none does.
ExtractOrderId(message) ==
    IF IsOrderId(SearchOrderWordId(message)) THEN SearchOrderWordId(message)
    ELSE IF IsOrderId(SearchHashId(message)) THEN SearchHashId(message)
    ELSE IF IsOrderId(SearchDigitWord(message)) THEN SearchDigitWord(message)
    ELSE IF IsOrderId(SearchPrefixedId(message)) THEN SearchPrefixedId(message)
    ELSE None

\* The tracking keywords of detect_complete_request.
TRACKING_KEYWORDS ==
    {"track", "tracking", "status", "where is", "when will", "delivery", "shipment",
     "shipped", "delivered", "eta", "arrive"}

\* The issue type detect_complete_request reads from the message.
DetectIssue(message_lower) ==
    IF AnyIn({"got wrong", "received wrong", "wrong item", "instead of", "but got",
              "sent wrong", "incorrect"}, message_lower)
    THEN "wrong_item"
    ELSE IF AnyIn({"delayed", "late", "not arrived", "hasn't arrived", "delivery",
                   "shipping"}, message_lower)
    THEN "delivery"
    ELSE IF AnyIn({"damaged", "broken", "defective", "not working"}, message_lower)
    THEN "damaged"
    ELSE None

\* The resolution detect_complete_request reads from the message.
DetectResolution(message_lower) ==
    IF AnyIn({"refund", "money back", "want refund", "need refund"}, message_lower)
    THEN "refund"
    ELSE IF AnyIn({"replacement", "replace", "new one", "send another"}, message_lower)
    THEN "replacement"
    ELSE IF AnyIn({"cancel", "cancellation", "cancel order"}, message_lower)
    THEN "cancel"
    ELSE None

\* The dict detect_complete_request returns.
CompleteRequest(order_id, issue, resolution, is_complete, is_tracking) ==
    [order_id |-> order_id, issue |-> issue, resolution |-> resolution,
     is_complete |-> is_complete, is_tracking |-> is_tracking]

\* The last step of detect_complete_request: whether the request is complete,
\* with the issue inferred for a refund or replacement and set for a cancel.
Completeness(order_id, issue, resolution) ==
    IF resolution \in {"refund", "replacement"}
    THEN CompleteRequest(order_id,
                         IF issue = None /\ order_id # None THEN "general" ELSE issue,
                         resolution,
                         order_id # None /\ (issue # None \/ order_id # None),
                         FALSE)
    ELSE IF resolution = "cancel"
    THEN CompleteRequest(order_id, "cancel", resolution, order_id # None, FALSE)
    ELSE CompleteRequest(order_id, issue, resolution, FALSE, FALSE)

\* detect_complete_request once the message is lower-cased and searched for
\* an order id.
DetectWith(message_lower, order_id) ==
    IF AnyIn(TRACKING_KEYWORDS, message_lower) /\ order_id # None
    THEN CompleteRequest(order_id, "tracking", "tracking", TRUE, TRUE)
    ELSE IF ~AnyIn({"refund", "replacement", "cancel", "wrong", "damaged", "delayed",
                    "broken", "return"}, message_lower)
    THEN CompleteRequest(None, None, None, FALSE, FALSE)
    ELSE Completeness(order_id, DetectIssue(message_lower), DetectResolution(message_lower))

\* NLPProcessor.detect_complete_request
detect_complete_request(message) == DetectWith(Lower(message), ExtractOrderId(message))

(***************************************************************************)
(* SessionMemory of memory/session_manager.py, as far as the router and    *)
(* the resolver use it.  A session is a record; order_states is the dict   *)
(* of its OrderState objects by order id.  The field requests is a history *)
(* of the calls of transition_order_status made while one message is       *)
(* handled: the order, its status at the call and the status asked for.    *)
(* last_resolved_order_id and last_resolution_type are left out: nothing   *)
(* modelled reads them.                                                    *)
(***************************************************************************)
\* SessionMemory.__init__
NewSession ==
    [resolved |-> FALSE, order_states |-> EmptyDict, last_intent |-> None,
     last_order_id |-> None, last_order_state |-> None, requests |-> <<>>]

\* SessionMemory.is_resolved
is_resolved(session) == session.resolved

\* SessionMemory.mark_resolved
mark_resolved(session) == [session EXCEPT !.resolved = TRUE]

\* SessionMemory.get_or_create_order_state: the session after the call.
get_or_create_order_state(session, order_id) ==
    IF order_id \in DOMAIN session.order_states THEN session
    ELSE [session EXCEPT !.order_states = DictSet(@, order_id, NewOrderState)]

\* SessionMemory.get_order_state
get_order_state(session, order_id) ==
    IF order_id \in DOMAIN session.order_states THEN session.order_states[order_id] ELSE None

\* What transition_order_status does to the OrderState: transition_to, and
\* update_tracking when the transition was made and a tracking number given.
ApplyTransition(order_state, new_status, tracking_number, delivery_eta) ==
    IF transition_to(order_state, new_status).returned /\ tracking_number # None
    THEN update_tracking(transition_to(order_state, new_status).self,
                         tracking_number, delivery_eta)
    ELSE transition_to(order_state, new_status).self

\* transition_order_status on a session that holds the order.
TransitionKnownOrder(session, order_id, new_status, tracking_number, delivery_eta) ==
    [session EXCEPT
        !.order_states = DictSet(@, order_id,
                                 ApplyTransition(session.order_states[order_id], new_status,
                                                 tracking_number, delivery_eta)),
        !.requests = Append(@, [order_id |-> order_id,
                                from |-> session.order_states[order_id].status,
                                target |-> new_status])]

\* SessionMemory.transition_order_status: the session after the call.
transition_order_status(session, order_id, new_status, tracking_number, delivery_eta) ==
    TransitionKnownOrder(get_or_create_order_state(session, order_id), order_id,
                         new_status, tracking_number, delivery_eta)

\* SessionMemory.update_conversation_memory
update_conversation_memory(session, intent, order_id, order_state) ==
    [session EXCEPT !.last_intent = intent, !.last_order_id = order_id,
                    !.last_order_state = order_state]

\* SessionMemory.clear_conversation_memory
clear_conversation_memory(session) ==
    [session EXCEPT !.last_intent = None, !.last_order_id = None, !.last_order_state = None]

\* SessionMemory.is_follow_up_message: the session remembers an order, the
\* message names none, and the message is an elliptical query; env.elliptical
\* says whether the session takes the message for one.
is_follow_up_message(session, message, env) ==
    /\ session.last_order_id # None
    /\ ExtractOrderId(message) = None
    /\ env.elliptical

\* SessionMemory.get_follow_up_response: the answer from the remembered order
\* and status.
get_follow_up_response(session) ==
    "Order #" \o session.last_order_id \o " is " \o session.last_order_state \o "."

(***************************************************************************)
(* DeterministicResolver of agents/deterministic_resolver.py.  A result is *)
(* the response, the first entry of 'intents' and the flag                 *)
(* issue_context['deterministic_resolution'].                              *)
(***************************************************************************)
\* The dict a handler of the router returns.
RouterResult(response, intent, deterministic_resolution) ==
    [response |-> response, intent |-> intent,
     deterministic_resolution |-> deterministic_resolution]

\* No dict: the call raised.
NoRouterResult == RouterResult(None, None, FALSE)

\* A call that returns, and the session it leaves.
RouterReturn(session, result) == [session |-> session, result |-> result, raised |-> FALSE]

\* A call that raises, and the session it leaves.
RouterRaise(session) == [session |-> session, result |-> NoRouterResult, raised |-> TRUE]

\* DeterministicResolver.handle_missing_info
handle_missing_info(missing_info) ==
    RouterResult(get_missing_info_response(missing_info), "missing_info", FALSE)

\* DeterministicResolver.handle_post_resolution
handle_post_resolution ==
    RouterResult(get_post_resolution_response, "post_resolution", FALSE)

\* DeterministicResolver._apply_business_logic
_apply_business_logic(current_status, resolution) ==
    CASE resolution = "tracking" ->
            IF current_status = "unknown" THEN "shipped" ELSE current_status
      [] resolution = "refund" ->
            IF current_status \in {"processing", "unknown"} THEN "refunded"
            ELSE current_status
      [] resolution = "replacement" ->
            IF current_status \in {"processing", "unknown", "shipped", "delivered"}
            THEN "replacement_sent"
            ELSE current_status
      [] resolution = "cancel" ->
            IF current_status \in {"processing", "unknown"} THEN "cancelled"
            ELSE current_status
      [] OTHER -> current_status

\* str.strip
RECURSIVE Strip(_)
Strip(s) ==
    IF s = "" THEN s
    ELSE IF IsSpace(CharAt(s, 1)) THEN Strip(SubSeq(s, 2, Len(s)))
    ELSE IF IsSpace(CharAt(s, Len(s))) THEN Strip(SubSeq(s, 1, Len(s) - 1))
    ELSE s

\* DeterministicResolver.validate_complete_request
validate_complete_request(order_id, issue, resolution) ==
    IF order_id = None \/ order_id = "" THEN FALSE
    ELSE IF Len(Strip(order_id)) < 3 THEN FALSE
    ELSE IF issue = "tracking" /\ resolution = "tracking" THEN TRUE
    ELSE IF resolution \notin {"refund", "replacement", "cancel", "tracking"} THEN FALSE
    ELSE IF resolution = "cancel" THEN TRUE
    ELSE issue \in {"wrong_item", "delivery", "damaged", "general", "cancel", "tracking"}

\* The end of resolve_complete_request returning the candidate response
\* unvalidated and leaving the session unresolved.
TerminateFlowUnchecked(session, order_id, resolution, response) ==
    RouterReturn(session, RouterResult(response, "resolution_complete", TRUE))

\* The end of resolve_complete_request: the response is validated, the
\* session marked resolved and the result returned.
TerminateFlow(session, order_id, resolution, response) ==
    RouterReturn([session EXCEPT !.resolved = TRUE],
                 RouterResult(IF validate_response(response, order_id) THEN response
                              ELSE "I've processed your " \o resolution
                                   \o " request for order #" \o order_id
                                   \o ". You'll receive confirmation shortly.",
                              "resolution_complete", TRUE))

\* resolve_complete_request once the order's status is read and the new
\* status chosen.
ResolveFrom(session, order_id, resolution, current_status, new_status) ==
    IF resolution = "tracking"
    THEN TerminateFlow(IF current_status = "unknown"
                       THEN transition_order_status(session, order_id, SHIPPED,
                                                    "TRK" \o order_id \o "789", "tomorrow")
                       ELSE session,
                       order_id, resolution,
                       get_response("tracking", current_status, order_id))
    ELSE TerminateFlow(IF new_status # current_status
                       THEN transition_order_status(session, order_id, new_status, None, None)
                       ELSE session,
                       order_id, resolution,
                       get_response(resolution, current_status, order_id))

\* resolve_complete_request on a session that holds the order.
ResolveKnownOrder(session, order_id, resolution, current_status) ==
    ResolveFrom(session, order_id, resolution, current_status,
                _apply_business_logic(current_status, resolution))

\* DeterministicResolver.resolve_complete_request
resolve_complete_request(order_id, issue, resolution, session) ==
    ResolveKnownOrder(get_or_create_order_state(session, order_id), order_id, resolution,
                      get_or_create_order_state(session, order_id).order_states[order_id].status)

(***************************************************************************)
(* RouterAgent.process_with_context of agents/router_agent.py and          *)
(* HumanConversationManager.process_human_conversation.                    *)
(***************************************************************************)
\* RouterAgent._get_canonical_tracking_response for an order state that
\* exists.
_get_canonical_tracking_response(order_id, order_state) ==
    CASE order_state.status = "processing" ->
            "Order #" \o order_id \o " is currently being processed and will ship soon."
      [] order_state.status = "shipped" ->
            "Order #" \o order_id \o " has been shipped and is on the way."
                \o (IF order_state.delivery_eta # None
                    THEN " You should receive it by " \o order_state.delivery_eta \o "."
                    ELSE "")
      [] order_state.status = "delivered" ->
            "Order #" \o order_id \o " has been delivered successfully."
      [] order_state.status = "cancelled" -> "Order #" \o order_id \o " has been cancelled."
      [] order_state.status = "refunded" -> "Order #" \o order_id \o " has been refunded."
      [] OTHER -> "Order #" \o order_id \o " has been shipped and is on the way."

\* The end of the tracking short-circuit: the canonical answer, and the
\* order remembered for follow-ups.
TrackingAnswer(session, order_id) ==
    RouterReturn(update_conversation_memory(session, "tracking", order_id,
                                            session.order_states[order_id].status),
                 RouterResult(_get_canonical_tracking_response(order_id,
                                                               session.order_states[order_id]),
                              "order_tracking", FALSE))

\* The tracking short-circuit moving an order of unknown status to shipped in
\* one step.
TrackKnownOrderDirect(session, order_id) ==
    IF session.order_states[order_id].status = UNKNOWN
    THEN TrackingAnswer(
             transition_order_status(session, order_id, SHIPPED,
                                     "TRK" \o order_id \o "789", "tomorrow"),
             order_id)
    ELSE TrackingAnswer(session, order_id)

\* The tracking short-circuit on a session that holds the order: an order of
\* unknown status is moved to processing and then to shipped.
TrackKnownOrder(session, order_id) ==
    IF session.order_states[order_id].status = UNKNOWN
    THEN TrackingAnswer(
             transition_order_status(
                 transition_order_status(session, order_id, PROCESSING, None, None),
                 order_id, SHIPPED, "TRK" \o order_id \o "789", "tomorrow"),
             order_id)
    ELSE TrackingAnswer(session, order_id)

\* The tracking short-circuit of process_with_context.
TrackingShortCircuit(session, order_id) ==
    TrackKnownOrder(get_or_create_order_state(session, order_id), order_id)

\* The answer to a tracking request that names no order.
AskOrderNumberForTracking ==
    "I can help you track your order. Please provide your order number so I can check the status for you."

\* The missing piece process_with_context asks for: the resolution first,
\* then the order id, then the issue.
AskFor(complete_request) ==
    IF complete_request.resolution = None THEN "resolution"
    ELSE IF complete_request.order_id = None THEN "order_id"
    ELSE "issue"

\* Whether a piece of the request is missing.
MissingInfo(complete_request) ==
    \/ complete_request.order_id = None
    \/ complete_request.resolution = None
    \/ complete_request.issue = None /\ complete_request.resolution # "cancel"

\* Step 3 of process_with_context: the conversation memory of another intent
\* is cleared and the message goes to the NLP pipeline and its agents.  The
\* pipeline may raise (env.agent_raises); the order agent may answer a
\* tracking request from the dataset and remember its order
\* (env.agent_tracks).
NlpFallback(session, env) ==
    IF env.agent_raises THEN RouterRaise(session)
    ELSE IF env.agent_tracks # None
    THEN RouterReturn(update_conversation_memory(session, "tracking",
                                                 env.agent_tracks, "in transit"),
                      RouterResult("agent answer", "order", FALSE))
    ELSE RouterReturn(session, RouterResult("agent answer", "general", FALSE))

\* Step 2 and step 3 of process_with_context.
IncompleteRequest(message_lower, session, env, complete_request) ==
    IF /\ \/ complete_request.is_tracking
          \/ AnyIn({"track", "tracking", "status", "where is", "delivery"}, message_lower)
       /\ complete_request.order_id = None
    THEN RouterReturn(clear_conversation_memory(session),
                      RouterResult(AskOrderNumberForTracking, "order_tracking", FALSE))
    ELSE IF /\ MissingInfo(complete_request)
            /\ \/ complete_request.order_id # None
               \/ complete_request.resolution # None
               \/ complete_request.issue # None
    THEN RouterReturn(session, handle_missing_info(AskFor(complete_request)))
    ELSE NlpFallback(IF session.last_intent \notin {None, "", "general"}
                     THEN clear_conversation_memory(session)
                     ELSE session,
                     env)

\* process_with_context from step 1 on, with the complete request detected.
RouteRequest(message, session, env, complete_request) ==
    IF complete_request.is_tracking /\ complete_request.order_id # None
    THEN TrackingShortCircuit(session, complete_request.order_id)
    ELSE IF /\ complete_request.is_complete
            /\ validate_complete_request(complete_request.order_id, complete_request.issue,
                                         complete_request.resolution)
    THEN resolve_complete_request(complete_request.order_id, complete_request.issue,
                                  complete_request.resolution, session)
    ELSE IncompleteRequest(Lower(message), session, env, complete_request)

\* process_with_context after the gate on a resolved session.
RouteUnresolved(message, session, env) ==
    IF is_follow_up_message(session, message, env)
    THEN RouterReturn(session,
                      RouterResult(get_follow_up_response(session), "tracking_followup", FALSE))
    ELSE RouteRequest(message, session, env, detect_complete_request(message))

\* process_with_context without the gate on a resolved session.
ProcessWithContextNoGate(message, session, env) == RouteUnresolved(message, session, env)

\* RouterAgent.process_with_context
process_with_context(message, session, env) ==
    IF is_resolved(session) THEN RouterReturn(session, handle_post_resolution)
    ELSE RouteUnresolved(message, session, env)

\* process_human_conversation once the router has run: a deterministic
\* resolution marks the session resolved, an exception becomes the fallback
\* answer.
AfterRouter(routed) ==
    IF routed.raised
    THEN RouterReturn(routed.session,
                      RouterResult("I'm here to help. Could you please provide your order number and let me know how I can assist you?",
                                   None, FALSE))
    ELSE IF routed.result.deterministic_resolution
    THEN RouterReturn(mark_resolved(routed.session), routed.result)
    ELSE routed

\* HumanConversationManager.process_human_conversation
process_human_conversation(message, session, env) ==
    IF session.resolved THEN RouterReturn(session, handle_post_resolution)
    ELSE AfterRouter(process_with_context(message, session, env))

(***************************************************************************)
(* SpecOrder: any sequence of transition_to and update_tracking calls on   *)
(* one OrderState, and of validate_order_state calls.                      *)
(***************************************************************************)
\* The state of the order part before any call.
IdleOrder ==
    /\ order = NewOrderState
    /\ orderCall = [method |-> "__init__", arg |-> None, before |-> None, returned |-> FALSE,
                    shipped |-> FALSE, cancellable |-> FALSE, ever_shipped |-> FALSE]

\* The state of the detection part when it is not driven.
IdleDetect == msg = None /\ detected = None

\* What `turn` holds before the first call.
NoTurn ==
    [call |-> "__init__", message |-> None, before |-> NewWorld(TRUE),
     lookup |-> NoLookup, reset |-> FALSE, raised |-> FALSE, result |-> NoResult]

\* The state of the dialogue part when it is not driven.
IdleDialogue ==
    /\ world = NewWorld(TRUE)
    /\ enhancedMode = TRUE
    /\ turn = NoTurn

\* What `rturn` keeps of the session a call found.
Before(s) == [resolved |-> s.resolved, order_states |-> s.order_states]

\* What `rturn` holds before the first call.
NoRouterTurn ==
    [call |-> "__init__", message |-> None, before |-> Before(NewSession),
     result |-> NoRouterResult]

\* The state of the router part when it is not driven.
IdleRouter == sessionMemory = NewSession /\ rturn = NoRouterTurn

\* What `policy.first` holds before the first get_response call; afterwards,
\* the arguments of that call and the string it returned.
NoPolicyCall ==
    [resolution_type |-> None, order_status |-> None, order_id |-> None,
     response |-> None]

\* The state of the response policy part when it is not driven.
IdlePolicy ==
    policy = [call |-> "__init__", resolution_type |-> None, order_status |-> None,
              order_id |-> None, response |-> None, returned |-> FALSE,
              first |-> NoPolicyCall, others |-> FALSE]

\* What `request` holds before the call.
NoRequest(message) ==
    [call |-> "__init__", message |-> message,
     returned |-> CompleteRequest(None, None, None, FALSE, FALSE)]

\* The state of the request detection part when it is not driven.
IdleRequest == request = NoRequest(None)

(***************************************************************************)
(* The NLP fallback of RouterAgent.process_with_context (step 3):          *)
(* NLPProcessor.determine_multiple_intents on the scores and entities of   *)
(* the message, then the routing of a single intent to one of the router's *)
(* agents.  Scores are in hundredths: 30 is the 0.3 of the source.         *)
(***************************************************************************)
\* The keys of NLPProcessor.intent_patterns, in the order of the dict.
INTENT_PATTERNS == <<"order_tracking", "order_resolution", "product", "support", "general">>

\* The keys of RouterAgent.agents.
AGENTS == {"order_tracking", "order_resolution", "product", "support", "general"}

\* entity_boosts of determine_multiple_intents.
entity_boosts ==
    [e \in {"order_number", "product_name", "ordered_product", "received_product",
            "delivery_issue", "email", "phone", "issue_type"} |->
        CASE e \in {"order_number", "delivery_issue"} -> "order"
          [] e = "product_name" -> "product"
          [] OTHER -> "support"]

\* The entity types of `entities` that boost `intent`.
BoostsOf(intent, entities) ==
    {e \in entities \cap DOMAIN entity_boosts : entity_boosts[e] = intent}

\* The keys of boosted_scores in the order of the dict: those of scores, then
\* the boosted intents that scores does not hold.
BoostedKeys(entities) ==
    IF BoostsOf("order", entities) # {} THEN Append(INTENT_PATTERNS, "order")
    ELSE INTENT_PATTERNS

\* boosted_scores[intent]: 0.3 more for each boosting entity type, capped at 1.0
\* each time.
BoostedScore(scores, entities, intent) ==
    LET base == IF intent \in DOMAIN scores THEN scores[intent] ELSE 0
        boosted == base + 30 * Cardinality(BoostsOf(intent, entities))
    IN IF boosted > 100 THEN 100 ELSE boosted

RECURSIVE SortedIntents(_, _, _)
\* sorted(boosted_scores.items(), key=score, reverse=True): a stable sort, so
\* intents of equal score keep the order of the dict.  `keys` are those not
\* placed yet.
SortedIntents(keys, scores, entities) ==
    IF keys = <<>> THEN <<>>
    ELSE LET best == CHOOSE i \in 1..Len(keys) :
                        /\ \A j \in 1..Len(keys) :
                              BoostedScore(scores, entities, keys[j])
                                 <= BoostedScore(scores, entities, keys[i])
                        /\ \A j \in 1..(i - 1) :
                              BoostedScore(scores, entities, keys[j])
                                 < BoostedScore(scores, entities, keys[i])
         IN <<keys[best]>>
               \o SortedIntents(SubSeq(keys, 1, best - 1) \o SubSeq(keys, best + 1, Len(keys)),
                                scores, entities)

RECURSIVE DetectedIntents(_, _, _, _, _)
\* The loop of determine_multiple_intents over sorted_intents from position i,
\* with the intents kept so far: an intent of score 0.3 or more is kept; one
\* after the first, of score under 0.6 and more than 0.4 under the top score,
\* is dropped and ends the loop.
DetectedIntents(sorted, i, kept, scores, entities) ==
    IF i > Len(sorted) THEN kept
    ELSE IF BoostedScore(scores, entities, sorted[i]) < 30
    THEN DetectedIntents(sorted, i + 1, kept, scores, entities)
    ELSE IF /\ Len(kept) + 1 > 1
            /\ BoostedScore(scores, entities, sorted[i]) < 60
            /\ BoostedScore(scores, entities, sorted[i])
                  < BoostedScore(scores, entities, sorted[1]) - 40
    THEN kept
    ELSE DetectedIntents(sorted, i + 1, Append(kept, sorted[i]), scores, entities)

\* determine_multiple_intents reporting the best intent alone.
DetermineBestIntentOnly(scores, entities) ==
    LET kept == DetectedIntents(SortedIntents(BoostedKeys(entities), scores, entities),
                                    1, <<>>, scores, entities)
    IN IF kept = <<>>
       THEN [intents |-> <<"general">>, confidence |-> 30,
             confidence_scores |-> [k \in {"general"} |-> 30]]
       ELSE [intents |-> <<kept[1]>>,
             confidence |-> BoostedScore(scores, entities, kept[1]),
             confidence_scores |-> [k \in {kept[1]} |-> BoostedScore(scores, entities, k)]]

\* NLPProcessor.determine_multiple_intents: the detected intents, best first,
\* the confidence of the first, and confidence_scores.
determine_multiple_intents(scores, entities) ==
    LET kept == DetectedIntents(SortedIntents(BoostedKeys(entities), scores, entities),
                                    1, <<>>, scores, entities)
    IN IF kept = <<>>
       THEN [intents |-> <<"general">>, confidence |-> 30,
             confidence_scores |-> [k \in {"general"} |-> 30]]
       ELSE [intents |-> kept,
             confidence |-> BoostedScore(scores, entities, kept[1]),
             confidence_scores |-> [k \in {kept[i] : i \in 1..Len(kept)} |->
                                       BoostedScore(scores, entities, k)]]

\* RouterAgent._determine_routing_with_context.  In the band from 0.4 to 0.7
\* every branch after the test of the user's tone returns the intent itself.
_determine_routing_with_context(intent, confidence, session) ==
    IF session.open_issues /\ (intent \in {"support", "general"} \/ confidence < 60)
    THEN "support"
    ELSE IF confidence >= 70 THEN intent
    ELSE IF confidence >= 40
    THEN IF session.user_tone = "frustrated" /\ intent # "general" THEN "support"
         ELSE intent
    ELSE "general"

\* What the fallback did: the intents detected, the agent the message was
\* routed to (None on the multi-intent path, which asks each intent's agent in
\* turn), and whether the call raised.
Routing(intents, target_intent, raised) ==
    [intents |-> intents, target_intent |-> target_intent, raised |-> raised]

\* RouterAgent._handle_single_intent_structured: self.agents[target_intent]
\* raises KeyError for a key the dict does not hold.
_handle_single_intent_structured(intents, confidence, session) ==
    LET target_intent == _determine_routing_with_context(intents[1], confidence, session)
    IN Routing(intents, target_intent, target_intent \notin AGENTS)

\* Step 3 of process_with_context once the NLP pipeline has analysed the
\* message: several intents go to _handle_multi_intent_structured, which
\* skips the intents that are not keys of self.agents; one intent goes to
\* _handle_single_intent_structured.
RouteIntents(nlp_result, session) ==
    IF Len(nlp_result.intents) > 1
    THEN Routing(nlp_result.intents, None, FALSE)
    ELSE _handle_single_intent_structured(nlp_result.intents, nlp_result.confidence, session)

\* What `fallback` holds before the call.
NoFallback(scores, entities, session) ==
    [call |-> "__init__", scores |-> scores, entities |-> entities, session |-> session,
     routing |-> Routing(<<>>, None, FALSE), confidence_scores |-> EmptyDict]

\* The state of the fallback part when it is not driven.
IdleFallback ==
    fallback = NoFallback([i \in {} |-> 0], {}, [open_issues |-> FALSE, user_tone |-> "neutral"])

\* SessionManager.get_session: the session object of the id, one object per
\* id, named here by the id.
get_session(session_id) == session_id

\* One DialogueState kept for every session.
DialogueStateOnManager(session_object) == "manager"

\* The object on which get_dialogue_state keeps a DialogueState: the session
\* object itself, as its attribute dialogue_state.
DialogueStateOwner(session_object) == session_object

\* DialogueStateManager.get_dialogue_state on the objects `states`: the
\* DialogueState of the session, made by DialogueState() on first use with a
\* context dict of its own.
get_dialogue_state(session_object, states) ==
    IF DialogueStateOwner(session_object) \in DOMAIN states THEN states
    ELSE DictSet(states, DialogueStateOwner(session_object), NewWorld(TRUE))

\* The state of the server part when it is not driven.
IdleServer ==
    server = [states |-> EmptyDict, handlers |-> <<>>, alone |-> EmptyDict]

\* order.transition_to(target)
TransitionTo ==
    /\ \E target \in OrderStatus :
        LET r == transition_to(order, target) IN
        /\ order' = r.self
        /\ orderCall' = [method |-> "transition_to", arg |-> target,
                         before |-> order.status, returned |-> r.returned,
                         shipped |-> FALSE, cancellable |-> FALSE,
                         ever_shipped |-> orderCall.ever_shipped
                                          \/ is_order_shipped(r.self.status)]
    /\ UNCHANGED <<detectVars, dialogueVars, routerVars, policyVars, requestVars, fallbackVars, serverVars>>

\* order.update_tracking(tracking_number, delivery_eta)
UpdateTracking ==
    /\ \E tn \in {"TRK1234789"}, eta \in {None, "tomorrow"} :
        /\ order' = update_tracking(order, tn, eta)
        /\ orderCall' = [method |-> "update_tracking", arg |-> tn,
                         before |-> order.status, returned |-> FALSE,
                         shipped |-> FALSE, cancellable |-> FALSE,
                         ever_shipped |-> orderCall.ever_shipped]
    /\ UNCHANGED <<detectVars, dialogueVars, routerVars, policyVars, requestVars, fallbackVars, serverVars>>

\* StateMachine.validate_order_state(status, shipped, cancellable), on any
\* status and any pair of flags
ValidateOrderState ==
    /\ \E status \in OrderStatus, shipped \in BOOLEAN, cancellable \in BOOLEAN :
        orderCall' = [method |-> "validate_order_state", arg |-> status,
                      before |-> order.status,
                      returned |-> validate_order_state(status, shipped, cancellable),
                      shipped |-> shipped, cancellable |-> cancellable,
                      ever_shipped |-> orderCall.ever_shipped]
    /\ UNCHANGED <<order, detectVars, dialogueVars, routerVars, policyVars, requestVars, fallbackVars, serverVars>>

InitOrder == IdleOrder /\ IdleDetect /\ IdleDialogue /\ IdleRouter /\ IdlePolicy /\ IdleRequest /\ IdleFallback /\ IdleServer

NextOrder == TransitionTo \/ UpdateTracking \/ ValidateOrderState

SpecOrder == InitOrder /\ [][NextOrder]_vars

(***************************************************************************)
(* SpecDetect: one call of _detect_intent on each message of               *)
(* DetectMessages.                                                         *)
(***************************************************************************)
InitDetect ==
    /\ msg \in DetectMessages
    /\ detected = None
    /\ IdleOrder
    /\ IdleDialogue
    /\ IdleRouter
    /\ IdlePolicy /\ IdleRequest /\ IdleFallback /\ IdleServer

\* One call of _detect_intent(msg).
DetectIntent ==
    /\ detected = None
    /\ detected' = _detect_intent(msg)
    /\ UNCHANGED <<msg, orderVars, dialogueVars, routerVars, policyVars, requestVars, fallbackVars, serverVars>>

NextDetect == DetectIntent

SpecDetect == InitDetect /\ [][NextDetect]_vars

(***************************************************************************)
(* SpecDialogue: one session driven by any sequence of messages of         *)
(* DialogueMessages, through DialogueStateManager.process_message and      *)
(* handle_completion called on their own and through the application's     *)
(* message handler, which calls both on each message.  Each call chooses   *)
(* what the collaborators do: whether the repository raises and whether    *)
(* the FAQ has an answer.                                                  *)
(***************************************************************************)
\* Messages with keywords of each intent, order ids the repository knows and
\* does not know, in several spellings, customer ids, completion keywords,
\* combinations of them, and a short reply.
DialogueMessages ==
    {"track", "charged", "price", "return", "Cust", "hello",
     "45", "ORD999", "0", "CUST0045", "cust0999",
     "thanks", "ORD999 thanks", "refund 45", "no"}

\* What the collaborators can do during one call.
Envs ==
    [repo_raises : BOOLEAN, faq_found : BOOLEAN, enhanced_mode : {enhancedMode}]

\* The record of a call kept in `turn`.
Turn(call, message, before, o) ==
    [call |-> call, message |-> message, before |-> before, lookup |-> o.lookup,
     reset |-> o.reset, raised |-> o.raised, result |-> o.result]

InitDialogue ==
    /\ \E has_persistent_entities \in BOOLEAN : world = NewWorld(has_persistent_entities)
    /\ enhancedMode \in BOOLEAN
    /\ turn = [NoTurn EXCEPT !.before = world]
    /\ IdleDetect
    /\ IdleOrder
    /\ IdleRouter
    /\ IdlePolicy /\ IdleRequest /\ IdleFallback /\ IdleServer

\* dialogue_manager.process_message(message, session, ...)
ProcessMessage ==
    /\ \E message \in DialogueMessages, env \in Envs :
        \E o \in {process_message(message, world, env)} :
        /\ world' = o.w
        /\ turn' = Turn("process_message", message, world, o)
    /\ UNCHANGED <<enhancedMode, detectVars, orderVars, routerVars, policyVars, requestVars, fallbackVars, serverVars>>

\* dialogue_manager.handle_completion(message, dialogue_state)
HandleCompletion ==
    /\ \E message \in DialogueMessages :
        \E o \in {handle_completion(message, world)} :
        /\ world' = o.w
        /\ turn' = Turn("handle_completion", message, world, o)
    /\ UNCHANGED <<enhancedMode, detectVars, orderVars, routerVars, policyVars, requestVars, fallbackVars, serverVars>>

\* app.handle_user_message(data) with data['message'] = message
HandleUserMessage ==
    /\ \E message \in DialogueMessages, env \in Envs :
        \E o \in {handle_user_message(message, world, env)} :
        /\ world' = o.w
        /\ turn' = Turn("handle_user_message", message, world, o)
    /\ UNCHANGED <<enhancedMode, detectVars, orderVars, routerVars, policyVars, requestVars, fallbackVars, serverVars>>

NextDialogue == ProcessMessage \/ HandleCompletion \/ HandleUserMessage

SpecDialogue == InitDialogue /\ [][NextDialogue]_vars

(***************************************************************************)
(* SpecRouter: one new session driven by any sequence of messages of       *)
(* RouterMessages, through RouterAgent.process_with_context called on its  *)
(* own and through HumanConversationManager.process_human_conversation.    *)
(* Each call chooses what the collaborators do: whether the session takes  *)
(* the message for an elliptical query, whether the NLP pipeline raises    *)
(* and whether the order agent remembers an order.                         *)
(***************************************************************************)
\* Complete requests of each resolution for two orders, a tracking request
\* whose words also ask for a refund, requests with a piece missing, and a
\* message that is no support request.
RouterMessages ==
    {"track order 12345", "refund for order 12345", "replacement for order 12345",
     "cancel order 12345", "replacement order 777", "refund delivered order 777",
     "order 12345 damaged", "I want a refund", "track", "when will it reach",
     "wrong item in delivery"}

\* What the collaborators can do during one call.
RouterEnvs ==
    {env \in [elliptical : BOOLEAN, agent_raises : BOOLEAN, agent_tracks : {None, "777"}] :
        env.agent_raises => env.agent_tracks = None}

\* The record of a call kept in `rturn`.
RouterTurn(call, message, before, o) ==
    [call |-> call, message |-> message, before |-> Before(before),
     result |-> IF o.raised THEN [NoRouterResult EXCEPT !.response = "raised"]
                ELSE o.result]

\* The session as a call finds it: no transition requested yet.
AtCall(s) == [s EXCEPT !.requests = <<>>]

InitRouter == IdleRouter /\ IdleDetect /\ IdleOrder /\ IdleDialogue /\ IdlePolicy /\ IdleRequest /\ IdleFallback /\ IdleServer

\* router.process_with_context(message, session)
ProcessWithContext ==
    /\ \E message \in RouterMessages, env \in RouterEnvs :
        \E o \in {process_with_context(message, AtCall(sessionMemory), env)} :
        /\ sessionMemory' = o.session
        /\ rturn' = RouterTurn("process_with_context", message, sessionMemory, o)
    /\ UNCHANGED <<detectVars, orderVars, dialogueVars, policyVars, requestVars, fallbackVars, serverVars>>

\* human_conversation_manager.process_human_conversation(message, session)
ProcessHumanConversation ==
    /\ \E message \in RouterMessages, env \in RouterEnvs :
        \E o \in {process_human_conversation(message, AtCall(sessionMemory), env)} :
        /\ sessionMemory' = o.session
        /\ rturn' = RouterTurn("process_human_conversation", message, sessionMemory, o)
    /\ UNCHANGED <<detectVars, orderVars, dialogueVars, policyVars, requestVars, fallbackVars, serverVars>>

NextRouter == ProcessWithContext \/ ProcessHumanConversation

SpecRouter == InitRouter /\ [][NextRouter]_vars

(***************************************************************************)
(* SpecPolicy: one use of ResponsePolicyLayer.  get_response is called for *)
(* an action, a status and an order id, and validate_response on what it   *)
(* returned; or validate_response is called on a response of              *)
(* PolicyResponses.                                                        *)
(***************************************************************************)
\* The actions the response table is keyed by.
PolicyActions == {"refund", "replacement", "cancel", "general", "tracking"}

\* Other values get_response can be handed as the resolution type: none, an
\* empty one, and one the table has no row for.
OtherActions == {None, "", "escalate"}

\* Other values get_response can be handed as the order status: none and an
\* empty one.
OtherStatuses == {None, ""}

\* Order ids as the complete-request detector extracts them.
PolicyOrderIds == {"12345", "ORD777"}

\* Responses handed to validate_response: the prompts for missing
\* information, the post-resolution prompt, and texts with and without the
\* order id, a question mark and question words.
PolicyResponses ==
    {MISSING_INFO_RESPONSES[k] : k \in DOMAIN MISSING_INFO_RESPONSES}
        \cup {POST_RESOLUTION_RESPONSE,
              "",
              "Your refund is on its way.",
              "Refund for order #12345 initiated.",
              "Is order #12345 the right one?",
              "Please provide a photo for order #ORD777.",
              "Order #ORD777 ships when it is ready.",
              "Anything else?"}

InitPolicy ==
    /\ \E resolution_type \in PolicyActions \cup OtherActions,
          order_status \in OrderStatus \cup OtherStatuses,
          order_id \in PolicyOrderIds :
          policy = [call |-> "__init__", resolution_type |-> resolution_type,
                    order_status |-> order_status, order_id |-> order_id,
                    response |-> None, returned |-> FALSE,
                    first |-> NoPolicyCall, others |-> FALSE]
    /\ IdleDetect
    /\ IdleOrder
    /\ IdleDialogue
    /\ IdleRouter
    /\ IdleRequest /\ IdleFallback /\ IdleServer

\* The first ResponsePolicyLayer.get_response(resolution_type, order_status,
\* order_id) call; policy.first keeps its arguments and the string returned.
GetResponse ==
    /\ policy.call = "__init__"
    /\ \E response \in {get_response(policy.resolution_type, policy.order_status,
                                      policy.order_id)} :
          policy' = [policy EXCEPT
                       !.call = "get_response",
                       !.response = response,
                       !.first = [resolution_type |-> policy.resolution_type,
                                  order_status |-> policy.order_status,
                                  order_id |-> policy.order_id,
                                  response |-> response]]
    /\ UNCHANGED <<detectVars, orderVars, dialogueVars, routerVars, requestVars, fallbackVars, serverVars>>

\* A later get_response call, with any arguments; policy.others tells whether
\* a call with arguments other than those of the first call has been made.
GetResponseAgain ==
    /\ policy.first # NoPolicyCall
    /\ \E resolution_type \in PolicyActions, order_status \in OrderStatus,
          order_id \in PolicyOrderIds :
          policy' = [policy EXCEPT
                       !.call = "get_response",
                       !.resolution_type = resolution_type,
                       !.order_status = order_status,
                       !.order_id = order_id,
                       !.response = get_response(resolution_type, order_status, order_id),
                       !.others = @ \/ <<resolution_type, order_status, order_id>>
                                         # <<policy.first.resolution_type,
                                             policy.first.order_status,
                                             policy.first.order_id>>]
    /\ UNCHANGED <<detectVars, orderVars, dialogueVars, routerVars, requestVars, fallbackVars, serverVars>>

\* ResponsePolicyLayer.validate_response(response, order_id) on the response
\* get_response returned, as resolve_complete_request calls it.
ValidateCandidate ==
    /\ policy.call = "get_response"
    /\ policy' = [policy EXCEPT
                     !.call = "validate_response",
                     !.returned = validate_response(policy.response, policy.order_id)]
    /\ UNCHANGED <<detectVars, orderVars, dialogueVars, routerVars, requestVars, fallbackVars, serverVars>>

\* ResponsePolicyLayer.validate_response(response, order_id) on a response of
\* PolicyResponses.
ValidateResponse ==
    /\ policy.call = "__init__"
    /\ \E response \in PolicyResponses :
          policy' = [policy EXCEPT
                       !.call = "validate_response",
                       !.response = response,
                       !.returned = validate_response(response, policy.order_id)]
    /\ UNCHANGED <<detectVars, orderVars, dialogueVars, routerVars, requestVars, fallbackVars, serverVars>>

NextPolicy == GetResponse \/ GetResponseAgain \/ ValidateCandidate \/ ValidateResponse

SpecPolicy == InitPolicy /\ [][NextPolicy]_vars

(***************************************************************************)
(* SpecRequest: one call of NLPProcessor.detect_complete_request on each   *)
(* message of RequestMessages.                                             *)
(***************************************************************************)
\* The longest message, in phrases of RequestVocab.
MaxRequestWords == 3

\* Phrases that ask for each resolution, with and without one of the support
\* indicators; order ids in two spellings; an issue; a word on how the order
\* arrived; and a word that is none of these.
RequestVocab ==
    {"refund", "money back", "replace", "cancel", "order 12345", "#ABC777",
     "damaged", "arrived", "hello"}

RequestMessages == MessagesUpTo(RequestVocab, MaxRequestWords)

InitRequest ==
    /\ \E message \in RequestMessages : request = NoRequest(message)
    /\ IdleDetect
    /\ IdleOrder
    /\ IdleDialogue
    /\ IdleRouter
    /\ IdlePolicy /\ IdleFallback /\ IdleServer

\* nlp.detect_complete_request(message)
DetectCompleteRequest ==
    /\ request.call = "__init__"
    /\ request' = [request EXCEPT
                      !.call = "detect_complete_request",
                      !.returned = detect_complete_request(request.message)]
    /\ UNCHANGED <<detectVars, orderVars, dialogueVars, routerVars, policyVars, fallbackVars, serverVars>>

NextRequest == DetectCompleteRequest

SpecRequest == InitRequest /\ [][NextRequest]_vars

(***************************************************************************)
(* SpecFallback: the NLP fallback of the router on one analysed message.   *)
(* calculate_intent_scores and extract_entities are the inputs: a score    *)
(* for each intent of INTENT_PATTERNS and the entity types found.          *)
(***************************************************************************)
\* Scores below the detection threshold, on it, and on the upper routing
\* threshold, which is 0.4 above the detection threshold and 0.3 under the cap.
ScoreLevels == {0, 30, 70}

\* Entity types that boost each of the three boosted intents; "date" boosts
\* none.
FallbackEntities == {"order_number", "delivery_issue", "product_name", "issue_type", "date"}

\* What the routing reads of the session.
FallbackSessions == [open_issues : BOOLEAN, user_tone : {"neutral", "frustrated"}]

InitFallback ==
    /\ \E scores \in [{INTENT_PATTERNS[i] : i \in 1..Len(INTENT_PATTERNS)} -> ScoreLevels],
          entities \in SUBSET FallbackEntities,
          session \in FallbackSessions :
          fallback = NoFallback(scores, entities, session)
    /\ IdleDetect
    /\ IdleOrder
    /\ IdleDialogue
    /\ IdleRouter
    /\ IdlePolicy
    /\ IdleRequest
    /\ IdleServer

\* The fallback of process_with_context on the analysed message.
RouteFallback ==
    /\ fallback.call = "__init__"
    /\ \E nlp_result \in {determine_multiple_intents(fallback.scores, fallback.entities)} :
          fallback' = [fallback EXCEPT
                         !.call = "process_with_context",
                         !.routing = RouteIntents(nlp_result, fallback.session),
                         !.confidence_scores = nlp_result.confidence_scores]
    /\ UNCHANGED <<detectVars, orderVars, dialogueVars, routerVars, policyVars, requestVars, serverVars>>

NextFallback == RouteFallback

SpecFallback == InitFallback /\ [][NextFallback]_vars

(***************************************************************************)
(* SpecServer: the application serving user_message events of the sessions *)
(* of SessionIds.  Socket.IO starts the handler of an event when the event *)
(* arrives and runs handlers side by side; app.handle_user_message takes   *)
(* no lock.  A handler that has started has decoded its event and runs its *)
(* body, process_message and handle_completion on the DialogueState of its *)
(* session, when the scheduler lets it: the body is one step here, which   *)
(* are the schedules where a handler, once in process_message, is not      *)
(* preempted.  server.alone replays the messages of each session, in the   *)
(* order their handlers ran, on a state no other session touches.          *)
(***************************************************************************)
\* The user_message events the server receives before it stops taking more.
MaxArrivals == 3

SessionIds == {"A", "B"}

\* A message that locks an intent and asks for the order id, one that fills
\* it, and one that completes the conversation.
ServerMessages == {"track", "45", "thanks"}

InitServer ==
    /\ IdleServer
    /\ IdleDetect
    /\ IdleOrder
    /\ IdleDialogue
    /\ IdleRouter
    /\ IdlePolicy
    /\ IdleRequest
    /\ IdleFallback

\* A user_message event of a session arrives and its handler is started.
ReceiveUserMessage ==
    /\ Len(server.handlers) < MaxArrivals
    /\ \E session_id \in SessionIds, message \in ServerMessages :
          server' = [server EXCEPT
                       !.handlers = Append(@, [session_id |-> session_id,
                                               message |-> message,
                                               pc |-> "started"])]
    /\ UNCHANGED <<detectVars, orderVars, dialogueVars, routerVars, policyVars, requestVars, fallbackVars>>

\* The server after the body of handler i ran on the objects `states`.
Served(i, states, o, replayed) ==
    [states |-> DictSet(states, DialogueStateOwner(get_session(server.handlers[i].session_id)), o.w),
     handlers |-> [server.handlers EXCEPT ![i].pc = "done"],
     alone |-> DictSet(server.alone, server.handlers[i].session_id, replayed.w)]

\* The state on which the messages of a session are replayed.
Alone(session_id) ==
    IF session_id \in DOMAIN server.alone THEN server.alone[session_id] ELSE NewWorld(TRUE)

\* The body of a started handler of app.handle_user_message runs.
ServeUserMessage ==
    /\ \E i \in 1..Len(server.handlers), env \in Envs :
          /\ server.handlers[i].pc = "started"
          /\ \E states \in {get_dialogue_state(get_session(server.handlers[i].session_id),
                                                  server.states)} :
             \E o \in {handle_user_message(server.handlers[i].message,
                                           states[DialogueStateOwner(get_session(server.handlers[i].session_id))],
                                           env)} :
             \E replayed \in {handle_user_message(server.handlers[i].message,
                                                  Alone(server.handlers[i].session_id), env)} :
                server' = Served(i, states, o, replayed)
    /\ UNCHANGED <<detectVars, orderVars, dialogueVars, routerVars, policyVars, requestVars, fallbackVars>>

NextServer == ReceiveUserMessage \/ ServeUserMessage

SpecServer == InitServer /\ [][NextServer]_vars

(***************************************************************************)
(* Claims about the order lifecycle.                                       *)
(***************************************************************************)
\* The transition table as section 4.3 of the specification prints it.
TableOfSpec ==
    {<<UNKNOWN, PROCESSING>>, <<UNKNOWN, CANCELLED>>,
     <<PROCESSING, SHIPPED>>, <<PROCESSING, CANCELLED>>, <<PROCESSING, REPLACEMENT_SENT>>,
     <<SHIPPED, DELIVERED>>, <<SHIPPED, REFUNDED>>, <<SHIPPED, REPLACEMENT_SENT>>,
     <<DELIVERED, REFUNDED>>, <<DELIVERED, REPLACEMENT_SENT>>,
     <<REPLACEMENT_SENT, DELIVERED>>}

\* C1: a transition_to(target) call returns true and leaves the status at target
\* exactly when (status before, target) is a pair of the table; for every other
\* pair it returns false and the status is the one before the call.
C1_TransitionSoundness ==
    orderCall.method = "transition_to" =>
        IF <<orderCall.before, orderCall.arg>> \in TableOfSpec
        THEN orderCall.returned = TRUE /\ order.status = orderCall.arg
        ELSE orderCall.returned = FALSE /\ order.status = orderCall.before

\* C1 witness: a refused call (cancel after shipping) has been made.
C1_Witness ==
    /\ orderCall.method = "transition_to"
    /\ orderCall.before = SHIPPED
    /\ orderCall.arg = CANCELLED
    /\ orderCall.returned = FALSE
    /\ order.status = SHIPPED

(***************************************************************************)
(* Claims about intent detection.                                          *)
(***************************************************************************)
\* Whether a keyword of the intent's category occurs in the message.
CategoryPresent(intent, message) ==
    LET message_lower == Lower(message)
    IN  \E k \in intent_keywords(intent) : Contains(message_lower, k)

\* The priority order of the categories as section 4.2 states it.
PriorityOfSpec ==
    <<CUSTOMER_LOOKUP, ORDER_DETAIL_QUERY, RETURN_ORDER, ORDER_STATUS, BILLING_ISSUE, FAQ>>

\* The intent of the highest-priority category present, FAQ when none is.
HighestPriorityPresent(message) ==
    LET present == {i \in 1..Len(PriorityOfSpec) : CategoryPresent(PriorityOfSpec[i], message)}
    IN  IF present = {} THEN FAQ
        ELSE PriorityOfSpec[CHOOSE i \in present : \A j \in present : i <= j]

MessageCall == turn.call \in {"process_message", "handle_user_message"}

\* The message holds no digit.
NoDigit(message) == \A i \in 1..Len(message) : ~IsDigit(CharAt(message, i))

\* The message holds no customer id: no "cust", in any case, followed by a digit.
NoCustomerId(message) ==
    \A i \in 1..(Len(message) - 4) :
        ~(Lower(SubSeq(message, i, i + 3)) = "cust" /\ IsDigit(CharAt(message, i + 4)))

\* The completion signals: the message contains one of the completion phrases.
HasCompletionKeyword(message) ==
    \E k \in {"thank you", "thanks", "that helps", "perfect", "great", "solved",
              "resolved", "done", "that's all", "no more questions"} :
        Contains(Lower(message), k)

\* The call started with a locked intent waiting for `slot`, and its message
\* does not hold a value for it.
ExtractionMissTurn(slot) ==
    /\ MessageCall
    /\ turn.before.active_intent # None
    /\ turn.before.pending_slot = slot
    /\ IF slot = "order_id" THEN NoDigit(turn.message) ELSE NoCustomerId(turn.message)

\* The re-prompt for a slot.
RePromptFor(slot) ==
    IF slot = "order_id"
    THEN Result("I need your order number to help you. Please provide your order number (e.g., 45, ORD45, or #45).",
                "awaiting_order_id")
    ELSE Result("I need a valid customer ID to help you. Please provide your customer ID (e.g., CUST0001, CUST000714).",
                "awaiting_customer_id")

\* The call left intent and pending slot as they were and returned the re-prompt.
StateKeptAndRePrompted(slot) ==
    /\ world.active_intent = turn.before.active_intent
    /\ world.pending_slot = slot
    /\ turn.result = RePromptFor(slot)

LockedIntent ==
    IF turn.before.active_intent # None THEN turn.before.active_intent
    ELSE _detect_intent(turn.message)

\* The slot a repository's key fills.
SlotOf(repo) == IF repo = "order" THEN "order_id" ELSE "customer_id"

\* The not-found answer of each workflow.
NotFoundAnswer(intent, key) ==
    IF intent = CUSTOMER_LOOKUP
    THEN Result("I couldn't find customer " \o key
                    \o " in our records. Please check the customer ID and try again.",
                "customer_lookup_not_found_retry")
    ELSE Result("I couldn't find that order. Please recheck the order number.",
                CASE intent = ORDER_DETAIL_QUERY -> "order_detail_not_found_retry"
                  [] intent = BILLING_ISSUE -> "billing_order_not_found_retry"
                  [] intent = RETURN_ORDER -> "return_order_not_found_retry"
                  [] intent = ORDER_STATUS -> "status_order_not_found_retry"
                  [] OTHER -> None)

\* The call's lookup did not find the id it was given.
LookupMissTurn == MessageCall /\ turn.lookup.outcome = "miss"

\* After a lookup miss: same intent, the same slot pending, the value gone
\* from the context, the not-found re-prompt returned, no reset.
RetryState ==
    /\ LockedIntent \in {CUSTOMER_LOOKUP, ORDER_DETAIL_QUERY, BILLING_ISSUE,
                         RETURN_ORDER, ORDER_STATUS}
    /\ world.active_intent = LockedIntent
    /\ world.pending_slot = SlotOf(turn.lookup.repo)
    /\ SlotOf(turn.lookup.repo) \notin DOMAIN world.context
    /\ turn.result = NotFoundAnswer(LockedIntent, turn.lookup.key)
    /\ ~turn.reset

C5_PendingSlotNeedsIntent ==
    world.pending_slot # None => world.active_intent # None

\* C5 witness: a handle_completion call on a message without completion
\* keyword left a pending slot, with its intent, in place.
C5_Witness ==
    /\ turn.call = "handle_completion"
    /\ world.pending_slot = "customer_id"
    /\ world.active_intent = CUSTOMER_LOOKUP

\* The call reset the dialogue state.
DialogueWasReset ==
    \/ turn.reset
    \/ /\ turn.before.active_intent # None
       /\ world.active_intent = None
       /\ world.context = EmptyDict

\* The message of the call was a completion signal that the call looks at.
CompletionSignalTurn ==
    /\ turn.call \in {"handle_completion", "handle_user_message"}
    /\ HasCompletionKeyword(turn.message)

\* The workflow of the call reached its terminal answer: a lookup that found
\* its record in a workflow that ends with the answer, or the FAQ workflow.
TerminalResolutionTurn ==
    /\ MessageCall
    /\ \/ /\ turn.lookup.outcome = "found"
          /\ LockedIntent \in {CUSTOMER_LOOKUP, ORDER_DETAIL_QUERY, RETURN_ORDER, ORDER_STATUS}
       \/ /\ LockedIntent = FAQ
          /\ turn.before.pending_slot = None

\* The lookup of the call found nothing, or the call could not take a value
\* for the pending slot from its message.
FailedTurn ==
    /\ MessageCall
    /\ \/ turn.lookup.outcome = "miss"
       \/ /\ turn.before.pending_slot = "order_id"
          /\ ~TruthyInt(_extract_order_id(turn.message))
       \/ /\ turn.before.pending_slot = "customer_id"
          /\ NoCustomerId(turn.message)

C7_LockedIntentNeverSwitches ==
    (MessageCall /\ turn.before.active_intent # None)
        => world.active_intent \in {turn.before.active_intent, None}

\* C7 witness: with BILLING_ISSUE locked and no slot pending, a message with a
\* customer-lookup keyword was handled and BILLING_ISSUE is still locked.
C7_Witness ==
    /\ turn.call = "process_message"
    /\ turn.before.active_intent = BILLING_ISSUE
    /\ turn.before.pending_slot = None
    /\ turn.message = "Cust"
    /\ _detect_intent(turn.message) = CUSTOMER_LOOKUP
    /\ world.active_intent = BILLING_ISSUE

(***************************************************************************)
(* C4: once a session is resolved, every call of process_with_context and  *)
(* of process_human_conversation returns exactly the post-resolution       *)
(* template, whatever the message, asks for no status change and leaves    *)
(* every order state and the resolved flag as they were.                   *)
(***************************************************************************)
RouterCall == rturn.call \in {"process_with_context", "process_human_conversation"}

C4_ResolvedGate ==
    (RouterCall /\ rturn.before.resolved) =>
        /\ rturn.result.response = POST_RESOLUTION_RESPONSE
        /\ sessionMemory.requests = <<>>
        /\ sessionMemory.order_states = rturn.before.order_states
        /\ sessionMemory.resolved

\* A cancel request for an order, complete in itself, arrives on a resolved
\* session and gets the template.
C4_Witness ==
    /\ RouterCall
    /\ rturn.before.resolved
    /\ rturn.message = "cancel order 12345"
    /\ "12345" \in DOMAIN sessionMemory.order_states
    /\ rturn.result.response = POST_RESOLUTION_RESPONSE

(***************************************************************************)
(* C8: every status change requested of the session while a message is     *)
(* handled, by the resolver or by the tracking short-circuit, asks for a   *)
(* status that ORDER_TRANSITIONS allows from the order's status at the     *)
(* request.                                                                *)
(***************************************************************************)
C8_RequestsFollowTable ==
    \A i \in DOMAIN sessionMemory.requests :
        sessionMemory.requests[i].target \in ORDER_TRANSITIONS[sessionMemory.requests[i].from]

(***************************************************************************)
(* C11: when the resolver handles a complete request whose action the      *)
(* order's status does not allow (the action's target status is not in     *)
(* ORDER_TRANSITIONS of the status), the order's status is the same after  *)
(* the turn, nothing is raised, and the response is the template of        *)
(* (action, status).                                                       *)
(***************************************************************************)
\* The call was answered by resolve_complete_request.
ResolverRan == RouterCall /\ rturn.result.intent = "resolution_complete"

\* The complete request of the call's message.
RequestOfTurn == detect_complete_request(rturn.message)

\* The status the call found the order in: unknown for an order the session
\* did not hold yet.
StatusBefore(order_id) ==
    IF order_id \in DOMAIN rturn.before.order_states
    THEN rturn.before.order_states[order_id].status
    ELSE UNKNOWN

\* The status an action moves an order to.
TargetOf(resolution) ==
    CASE resolution = "refund" -> REFUNDED
      [] resolution = "replacement" -> REPLACEMENT_SENT
      [] resolution = "cancel" -> CANCELLED

\* The resolver handled an action that the table does not allow from the
\* order's status.
ActionNotAllowedTurn ==
    /\ ResolverRan
    /\ TargetOf(RequestOfTurn.resolution)
           \notin ORDER_TRANSITIONS[StatusBefore(RequestOfTurn.order_id)]

C11_DisallowedActionKeepsStatus ==
    ActionNotAllowedTurn =>
        /\ sessionMemory.order_states[RequestOfTurn.order_id].status
               = StatusBefore(RequestOfTurn.order_id)
        /\ <<RequestOfTurn.resolution, StatusBefore(RequestOfTurn.order_id)>>
               \in DOMAIN RESPONSE_TEMPLATES
        /\ rturn.result.response
               = Format(RESPONSE_TEMPLATES[<<RequestOfTurn.resolution,
                                             StatusBefore(RequestOfTurn.order_id)>>],
                        RequestOfTurn.order_id)

\* C11 witness: a cancel request for an order that a tracking query had moved
\* to shipped: the order is still shipped and the answer is the template of
\* (cancel, shipped).
C11_Witness ==
    /\ ResolverRan
    /\ rturn.message = "cancel order 12345"
    /\ StatusBefore("12345") = SHIPPED
    /\ sessionMemory.order_states["12345"].status = SHIPPED
    /\ rturn.result.response = Format(RESPONSE_TEMPLATES[<<"cancel", "shipped">>], "12345")

(***************************************************************************)
(* C12: the first tracking query for an order of unknown status asks for   *)
(* the transitions unknown -> processing -> shipped, in that order, each   *)
(* allowed by the table; the order is shipped afterwards; the answer holds *)
(* the order id, no question and no offer of a refund, replacement or      *)
(* cancellation; and the session is not resolved.                          *)
(***************************************************************************)
\* The call was answered by the tracking short-circuit.
TrackingTurn ==
    /\ RouterCall
    /\ rturn.result.intent = "order_tracking"
    /\ RequestOfTurn.is_tracking

\* A request for a transition.
Request(order_id, from, target) == [order_id |-> order_id, from |-> from, target |-> target]

\* The response asks no question: none of the question indicators of
\* validate_response occurs in it.
AsksNoQuestion(response) ==
    ~AnyIn({"?", "could you", "can you", "please provide", "what", "how", "when", "where"},
           Lower(response))

\* The response offers no resolution.
OffersNoResolution(response) ==
    ~AnyIn({"refund", "replace", "cancel"}, Lower(response))

C12_FirstTrackingQuery ==
    (TrackingTurn /\ StatusBefore(RequestOfTurn.order_id) = UNKNOWN) =>
        /\ sessionMemory.requests
               = <<Request(RequestOfTurn.order_id, UNKNOWN, PROCESSING),
                   Request(RequestOfTurn.order_id, PROCESSING, SHIPPED)>>
        /\ PROCESSING \in ORDER_TRANSITIONS[UNKNOWN]
        /\ SHIPPED \in ORDER_TRANSITIONS[PROCESSING]
        /\ sessionMemory.order_states[RequestOfTurn.order_id].status = SHIPPED
        /\ Contains(rturn.result.response, RequestOfTurn.order_id)
        /\ AsksNoQuestion(rturn.result.response)
        /\ OffersNoResolution(rturn.result.response)
        /\ ~sessionMemory.resolved

\* C12 witness: "track order 12345" on a session that did not hold the order:
\* the order is shipped, the canonical answer is returned, and the session
\* is not resolved.
C12_Witness ==
    /\ TrackingTurn
    /\ rturn.message = "track order 12345"
    /\ "12345" \notin DOMAIN rturn.before.order_states
    /\ sessionMemory.order_states["12345"].status = SHIPPED
    /\ rturn.result.response
           = "Order #12345 has been shipped and is on the way. You should receive it by tomorrow."
    /\ ~sessionMemory.resolved

(***************************************************************************)
(* C13: every complete request that is no tracking request, handled on an  *)
(* unresolved session, is answered by the resolver with a response that    *)
(* holds the order id and no question mark, and the session is resolved    *)
(* after the turn.                                                         *)
(***************************************************************************)
\* The call found an unresolved session and its message is a complete
\* request for a refund, a replacement or a cancellation.
CompleteRequestTurn ==
    /\ RouterCall
    /\ ~rturn.before.resolved
    /\ RequestOfTurn.is_complete
    /\ ~RequestOfTurn.is_tracking

C14_TableExhaustive ==
    (/\ policy.call = "get_response"
     /\ policy.resolution_type \in PolicyActions
     /\ policy.order_status \in OrderStatus)
    => <<policy.resolution_type, policy.order_status>> \in DOMAIN RESPONSE_TEMPLATES

(***************************************************************************)
(* C15: validate_response(response, order_id) returns true exactly when    *)
(* the response holds the order id and no interrogative marker, or is one  *)
(* of the whitelisted templates: a prompt for missing information or the   *)
(* post-resolution prompt.                                                 *)
(***************************************************************************)
\* The whitelisted templates.
WhitelistedTemplates ==
    {MISSING_INFO_RESPONSES[k] : k \in DOMAIN MISSING_INFO_RESPONSES}
        \cup {POST_RESOLUTION_RESPONSE}

C15_ValidateExactly ==
    policy.call = "validate_response" =>
        (policy.returned
            <=> \/ /\ Contains(policy.response, policy.order_id)
                   /\ AsksNoQuestion(policy.response)
                \/ policy.response \in WhitelistedTemplates)

(***************************************************************************)
(* C16: with the order_id slot pending, every message that holds a digit   *)
(* fills the slot: _extract_order_id yields the value of the first digit   *)
(* run, the lookup is made for that value, and the turn is not answered    *)
(* with the re-prompt for the order number; for every value, 0 included.   *)
(***************************************************************************)
\* The call started with a locked intent waiting for the order id and its
\* message holds a digit.
DigitForPendingOrderId ==
    /\ MessageCall
    /\ turn.before.active_intent # None
    /\ turn.before.pending_slot = "order_id"
    /\ ~NoDigit(turn.message)

\* The value of the first digit run of the call's message.
FirstRunValue == ParseInt(FirstDigitRun(turn.message))

\* The slot was filled with the value of the first digit run: the lookup was
\* made for it and the answer is not the re-prompt.
SlotFilledWithFirstRun ==
    /\ _extract_order_id(turn.message) = SomeInt(FirstRunValue)
    /\ turn.lookup.repo = "order"
    /\ turn.lookup.key = IntToStr(FirstRunValue)
    /\ turn.result # RePromptFor("order_id")

C16_DigitFillsSlot == DigitForPendingOrderId => SlotFilledWithFirstRun

(***************************************************************************)
(* C17: detect_complete_request returns is_complete = TRUE for every       *)
(* message that holds an order id and asks for a refund, a replacement or  *)
(* a cancellation, and is_complete = FALSE for every message that asks for *)
(* one of them and holds no order id.                                      *)
(***************************************************************************)
\* detect_complete_request has been called.
RequestDetected == request.call = "detect_complete_request"

\* The message holds one of the order ids of RequestVocab.
OrderIdPresent == AnyIn({"order 12345", "#ABC777"}, request.message)

\* The resolution the message asks for: one of the phrases by which
\* detect_complete_request recognises a refund, a replacement or a
\* cancellation occurs in it.
ResolutionAsked == DetectResolution(Lower(request.message))

C17_CompleteWithOrderId ==
    (RequestDetected /\ ResolutionAsked # None) =>
        (request.returned.is_complete <=> OrderIdPresent)

(***************************************************************************)
(* C18: a message that asks for a refund, a replacement or a cancellation  *)
(* and holds an order id is never classified as a tracking request:        *)
(* detect_complete_request returns is_tracking = FALSE and the resolution  *)
(* asked for, whatever else the message says (how the order arrived        *)
(* included).                                                              *)
(***************************************************************************)
C18_ExplicitRequestNotTracking ==
    (RequestDetected /\ OrderIdPresent /\ ResolutionAsked # None) =>
        /\ ~request.returned.is_tracking
        /\ request.returned.resolution = ResolutionAsked

(***************************************************************************)
(* C19: in every reachable order state the derived predicates agree with   *)
(* the transition table: cancellable holds exactly for the statuses from   *)
(* which CANCELLED is an allowed target, shipped holds exactly for SHIPPED *)
(* and DELIVERED, and no status is both shipped and cancellable.           *)
(***************************************************************************)
\* OrderState.cancellable and OrderState.shipped of the order.
Cancellable == is_order_cancellable(order.status)

Shipped == is_order_shipped(order.status)

C19_DerivedPredicatesAgree ==
    /\ Cancellable <=> CANCELLED \in ORDER_TRANSITIONS[order.status]
    /\ Shipped <=> order.status \in {SHIPPED, DELIVERED}
    /\ ~(Shipped /\ Cancellable)

\* C19 witness: the order has been shipped by a transition_to call and is
\* shipped and no longer cancellable.
C19_Witness ==
    /\ orderCall.method = "transition_to"
    /\ orderCall.returned = TRUE
    /\ order.status = SHIPPED
    /\ Shipped
    /\ ~Cancellable

(***************************************************************************)
(* C20: CANCELLED and REFUNDED are terminal: once the order has either     *)
(* status, every later transition_to call returns false and the status     *)
(* never changes again, whatever calls are made.                           *)
(***************************************************************************)
Terminal == {CANCELLED, REFUNDED}

\* A step taken from a terminal status keeps the status, and a transition_to
\* call made in it returns false.
TerminalStep ==
    order.status \in Terminal =>
        /\ order'.status = order.status
        /\ orderCall'.method = "transition_to" => orderCall'.returned = FALSE

C20_TerminalStatuses == [][TerminalStep]_vars

\* C20 witness: a transition_to call was made on a refunded order, was refused
\* and left the order refunded.
C20_Witness ==
    /\ orderCall.method = "transition_to"
    /\ orderCall.before = REFUNDED
    /\ orderCall.arg = REPLACEMENT_SENT
    /\ orderCall.returned = FALSE
    /\ order.status = REFUNDED

(***************************************************************************)
(* C23: if the order repository raises during a workflow's lookup, the     *)
(* turn has the effect of a lookup miss: active_intent is kept, the slot   *)
(* is pending again, the id is removed from the context, the re-prompt is  *)
(* returned, and no exception leaves process_message.                      *)
(***************************************************************************)
\* A process_message call during which get_order_by_id raised.
RepositoryFailureTurn ==
    /\ turn.call = "process_message"
    /\ turn.lookup.repo = "order"
    /\ turn.lookup.outcome = "raise"

C23_RepositoryFailureIsMiss ==
    RepositoryFailureTurn =>
        /\ ~turn.raised
        /\ world.active_intent = LockedIntent
        /\ world.pending_slot = "order_id"
        /\ "order_id" \notin DOMAIN world.context
        /\ turn.result = NotFoundAnswer(LockedIntent, turn.lookup.key)

(***************************************************************************)
(* C25: for every intent, a turn in which the workflow has its slot value  *)
(* and the lookup succeeds ends in IDLE: active_intent none, pending_slot  *)
(* none and the context empty, so that the next message is classified      *)
(* afresh.                                                                 *)
(***************************************************************************)
\* The call's workflow had its slot value and the repository found it.
LookupFoundTurn == MessageCall /\ turn.lookup.outcome = "found"

\* The IDLE state of the dialogue.
Idle(w) == w.active_intent = None /\ w.pending_slot = None /\ w.context = EmptyDict

C25_ResolvedReturnsToIdle == LookupFoundTurn => Idle(world)

(***************************************************************************)
(* C26: a message that contains a return, exchange or cancel keyword is    *)
(* classified RETURN_ORDER, also when it names the item ("exchange this    *)
(* item").                                                                 *)
(***************************************************************************)
\* The message holds the word return, exchange or cancel, in any case.
ReturnExchangeOrCancel == AnyIn({"return", "exchange", "cancel"}, Lower(msg))

C26_ReturnKeywordsClassified ==
    (detected # None /\ ReturnExchangeOrCancel) => detected = RETURN_ORDER

(***************************************************************************)
(* C28: starting from a locked intent that awaits an order id, after any   *)
(* number of turns that supply ids the repository does not know, a turn    *)
(* that supplies a known id produces the locked intent's answer for that   *)
(* id.  Stated turn by turn: a turn with an unknown id leaves the same     *)
(* intent locked and the order id awaited, and a turn with a known id is   *)
(* answered by the intent that was locked before it.                       *)
(***************************************************************************)
\* An intent is locked and waits for an order id.
AwaitingOrderId(w) == w.active_intent # None /\ w.pending_slot = "order_id"

\* The call found an intent awaiting an order id and its message supplied one
\* that the repository does not know.
UnknownIdTurn ==
    /\ MessageCall
    /\ AwaitingOrderId(turn.before)
    /\ turn.lookup.repo = "order"
    /\ turn.lookup.outcome = "miss"

\* The call found an intent awaiting an order id and its message supplied one
\* that the repository knows.
KnownIdTurn ==
    /\ MessageCall
    /\ AwaitingOrderId(turn.before)
    /\ turn.lookup.repo = "order"
    /\ turn.lookup.outcome = "found"

\* The conversation_state of the answer each intent gives for a found order.
FoundStateOf(intent, message) ==
    CASE intent = ORDER_DETAIL_QUERY -> "order_detail_provided"
      [] intent = RETURN_ORDER -> "return_processed"
      [] intent = ORDER_STATUS -> "status_provided"
      [] intent = BILLING_ISSUE -> BillingAnswer(Lower(message))
      [] OTHER -> None

\* The locked intent survives the turn and still awaits the order id.
StillAwaiting ==
    world.active_intent = turn.before.active_intent /\ world.pending_slot = "order_id"

\* The answer is that of the intent locked before the turn, for the id supplied.
AnsweredByLockedIntent ==
    turn.result = Result(AnswerAbout(FoundStateOf(turn.before.active_intent, turn.message),
                                     turn.lookup.key),
                         FoundStateOf(turn.before.active_intent, turn.message))

RememberedOrder(w) ==
    IF w.has_persistent_entities /\ "order_number" \in DOMAIN w.persistent_entities
    THEN ParseInt(FirstDigitRun(w.persistent_entities["order_number"]))
    ELSE 0

\* The call ran the billing workflow with no slot pending, for a session whose
\* persistent entities held a known order number and whose dialogue context
\* held none.
BillingMessageWithRememberedOrder ==
    /\ MessageCall
    /\ LockedIntent = BILLING_ISSUE
    /\ turn.before.pending_slot = None
    /\ "order_id" \notin DOMAIN turn.before.context
    /\ RememberedOrder(turn.before) \in OrderDataset

\* The call got the short reply while the billing workflow held that order id.
ShortReplyAfterBilling ==
    /\ MessageCall
    /\ turn.message = "no"
    /\ turn.before.active_intent = BILLING_ISSUE
    /\ turn.before.pending_slot = None
    /\ "order_id" \in DOMAIN turn.before.context
    /\ turn.before.context["order_id"] = RememberedOrder(turn.before)
    /\ RememberedOrder(turn.before) \in OrderDataset

\* The billing workflow looked up the remembered order, asked for no order
\* number and left no slot pending; a found order got a billing answer.
HandledForRememberedOrder ==
    /\ turn.lookup.repo = "order"
    /\ turn.lookup.key = IntToStr(RememberedOrder(turn.before))
    /\ world.pending_slot = None
    /\ turn.result.conversation_state # "billing_awaiting_order"
    /\ turn.lookup.outcome = "found" =>
          turn.result.conversation_state = BillingAnswer(Lower(turn.message))

C29_BillingReusesOrder ==
    /\ BillingMessageWithRememberedOrder =>
          /\ HandledForRememberedOrder
          /\ ~turn.raised => /\ world.active_intent = BILLING_ISSUE
                             /\ world.context["order_id"] = RememberedOrder(turn.before)
    /\ ShortReplyAfterBilling => HandledForRememberedOrder

\* C29 witness: after a billing message answered for the remembered order 45,
\* the reply "no" got the refund-escalation answer for order 45.
C29_Witness ==
    /\ turn.call = "handle_user_message"
    /\ ShortReplyAfterBilling
    /\ turn.lookup = Lookup("order", "45", "found")
    /\ turn.result.conversation_state = "billing_refund_escalation"
    /\ world.active_intent = BILLING_ISSUE
    /\ world.context = "order_id" :> 45

(***************************************************************************)
(* C30: get_response(action, status, order_id) is a pure function: a call  *)
(* with the arguments of an earlier call returns the string that call      *)
(* returned, whatever calls were made in between.                          *)
(***************************************************************************)
\* The last call was get_response with the arguments of the first call.
SameArgumentsAsFirst ==
    /\ policy.call = "get_response"
    /\ policy.first # NoPolicyCall
    /\ policy.resolution_type = policy.first.resolution_type
    /\ policy.order_status = policy.first.order_status
    /\ policy.order_id = policy.first.order_id

C24_FallbackRoutesToAgent ==
    fallback.call = "process_with_context" =>
        /\ ~fallback.routing.raised
        /\ fallback.routing.target_intent # None =>
              fallback.routing.target_intent \in AGENTS

(***************************************************************************)
(* C27: in the router, context survives an incomplete request: when one    *)
(* message gives an order id and an issue but no resolution, and the next  *)
(* message of the session gives only the resolution ("I want a refund"),   *)
(* the second turn resolves the request for the order id of the first      *)
(* message.                                                                *)
(***************************************************************************)
\* The call was given an order id and an issue but no resolution, and asked
\* for what was missing.
AskedForResolution(t) ==
    /\ t.call = "process_with_context"
    /\ t.result.intent = "missing_info"
    /\ detect_complete_request(t.message).order_id # None
    /\ detect_complete_request(t.message).issue # None
    /\ detect_complete_request(t.message).resolution = None

\* The call's message gives a resolution and no order id.
GivesOnlyResolution(t) ==
    /\ t.call = "process_with_context"
    /\ detect_complete_request(t.message).order_id = None
    /\ detect_complete_request(t.message).resolution \in {"refund", "replacement", "cancel"}

\* The call resolved a request for the order.
ResolvedFor(t, order_id) ==
    /\ t.result.intent = "resolution_complete"
    /\ t.result.deterministic_resolution
    /\ Contains(t.result.response, order_id)

\* A call that gives only the resolution, right after one that asked for it,
\* resolves the request for the order id of the earlier message.
ResolutionCompletesRequest ==
    (AskedForResolution(rturn) /\ GivesOnlyResolution(rturn')) =>
        ResolvedFor(rturn', detect_complete_request(rturn.message).order_id)

C27_ContextSurvivesIncomplete == [][ResolutionCompletesRequest]_vars

(***************************************************************************)
(* Claims about the server: the turns of one session, and of two sessions. *)
(***************************************************************************)
\* C21: messages of one session are handled one at a time in arrival order:
\* the body of a handler has run for a message of a session only when the
\* handlers of all earlier messages of that session have finished.
C21_SessionTurnsInArrivalOrder ==
    \A i, j \in 1..Len(server.handlers) :
        (/\ i < j
         /\ server.handlers[i].session_id = server.handlers[j].session_id
         /\ server.handlers[j].pc = "done")
        => server.handlers[i].pc = "done"

\* The dialogue state a handler of the session finds.
DialogueStateOf(session_id) == server.states[DialogueStateOwner(get_session(session_id))]

\* The fields of a dialogue state the claim compares.
DialogueFields(w) ==
    [active_intent |-> w.active_intent, pending_slot |-> w.pending_slot, context |-> w.context]

\* C22: handling a message of one session changes no state of another: after
\* any interleaving of the turns of the sessions, the dialogue state of each
\* session (active_intent, pending_slot, context) is the one its own messages
\* alone produce.
C22_OtherSessionsUntouched ==
    \A session_id \in DOMAIN server.alone :
        DialogueFields(DialogueStateOf(session_id)) = DialogueFields(server.alone[session_id])

\* Turns of A, B and A again have run, and left A waiting for an order id under
\* a locked intent and B in another state.
C22_Witness ==
    /\ Len(server.handlers) = 3
    /\ \A i \in 1..3 : server.handlers[i].pc = "done"
    /\ server.handlers[1].session_id = "A"
    /\ server.handlers[2].session_id = "B"
    /\ server.handlers[3].session_id = "A"
    /\ DOMAIN server.alone = {"A", "B"}
    /\ DialogueStateOf("A").active_intent # None
    /\ DialogueStateOf("A").pending_slot # None
    /\ DialogueFields(DialogueStateOf("B")) # DialogueFields(DialogueStateOf("A"))

(***************************************************************************)
(* Claims about the order state predicates.                                *)
(***************************************************************************)
\* C39: validate_order_state(status, shipped, cancellable) returns true
\* exactly when shipped equals is_order_shipped(status) and cancellable equals
\* is_order_cancellable(status).
C39_ValidateOrderStateExact ==
    orderCall.method = "validate_order_state"
    => (orderCall.returned
        <=> (/\ orderCall.shipped = is_order_shipped(orderCall.arg)
             /\ orderCall.cancellable = is_order_cancellable(orderCall.arg)))

(***************************************************************************)
(* C35: along any sequence of transition_to calls, an order that is not    *)
(* cancellable never becomes cancellable again, an order that has been     *)
(* shipped (SHIPPED or DELIVERED) is never CANCELLED afterwards, and an    *)
(* order that has left UNKNOWN never returns to it.                        *)
(***************************************************************************)
\* A step keeps an order that is not cancellable so, keeps an order that has
\* left UNKNOWN out of it, and leaves no order cancelled that was ever shipped.
MonotoneStep ==
    /\ ~Cancellable => ~is_order_cancellable(order'.status)
    /\ order.status # UNKNOWN => order'.status # UNKNOWN
    /\ orderCall'.ever_shipped => order'.status # CANCELLED

C35_CancellabilityNeverReturns == [][MonotoneStep]_vars

\* C35 witness: a delivered order was asked to be cancelled by transition_to,
\* the call was refused and the order is still delivered and not cancellable.
C35_Witness ==
    /\ orderCall.method = "transition_to"
    /\ orderCall.before = DELIVERED
    /\ orderCall.arg = CANCELLED
    /\ orderCall.returned = FALSE
    /\ order.status = DELIVERED
    /\ orderCall.ever_shipped
    /\ ~Cancellable

(***************************************************************************)
(* C31: get_response is total and follows the fallback chain: it returns   *)
(* the (action, status) template when the table has it, otherwise the      *)
(* (general, status) template when the table has it, otherwise the         *)
(* hard-coded fallback, each formatted with the order id; an empty action  *)
(* counts as general and an empty status as unknown; the text returned     *)
(* always holds the order id.                                              *)
(***************************************************************************)
\* An argument that is None or the empty string.
Empty(x) == x \in {None, ""}

\* The action and the status the chain is entered with.
ActionOf(resolution_type) == IF Empty(resolution_type) THEN "general" ELSE resolution_type

StatusOf(order_status) == IF Empty(order_status) THEN "unknown" ELSE order_status

\* The first link of the chain that the table holds: 1 the pair itself, 2 the
\* general row of the status, 3 neither.
ChainLink(action, status) ==
    IF <<action, status>> \in DOMAIN RESPONSE_TEMPLATES THEN 1
    ELSE IF <<"general", status>> \in DOMAIN RESPONSE_TEMPLATES THEN 2
    ELSE 3

\* The template of a link of the chain.
ChainTemplate(link, action, status) ==
    CASE link = 1 -> RESPONSE_TEMPLATES[<<action, status>>]
      [] link = 2 -> RESPONSE_TEMPLATES[<<"general", status>>]
      [] OTHER -> <<"I've processed your request for order #",
                    ". You'll receive confirmation shortly.">>

C31_FallbackChain ==
    policy.call = "get_response" =>
        /\ policy.response # None
        /\ policy.response =
              Format(ChainTemplate(ChainLink(ActionOf(policy.resolution_type),
                                             StatusOf(policy.order_status)),
                                   ActionOf(policy.resolution_type),
                                   StatusOf(policy.order_status)),
                     policy.order_id)
        /\ Contains(policy.response, policy.order_id)

\* C31 witness: get_response was called for an action without a row and a
\* status the table holds, and answered with the general template of the
\* status.
C31_Witness ==
    /\ policy.call = "get_response"
    /\ policy.resolution_type = "escalate"
    /\ policy.order_status = SHIPPED
    /\ ChainLink("escalate", SHIPPED) = 2
    /\ policy.response = Format(RESPONSE_TEMPLATES[<<"general", SHIPPED>>], policy.order_id)

(***************************************************************************)
(* C36: whenever resolve_complete_request answers with a text confirming   *)
(* that an action was carried out (a refund initiated, a replacement       *)
(* initiated or arranged, the order cancelled), the order's status after   *)
(* the turn is REFUNDED, REPLACEMENT_SENT or CANCELLED respectively; no    *)
(* confirmation is given in a turn whose transition was refused.           *)
(***************************************************************************)
\* The action a response text says was carried out, None when it confirms
\* none.
ConfirmedAction(response) ==
    IF Contains(response, "successfully initiated a refund") THEN "refund"
    ELSE IF Contains(response, "initiated a replacement")
            \/ Contains(response, "arranged for a replacement") THEN "replacement"
    ELSE IF Contains(response, "has been successfully cancelled") THEN "cancel"
    ELSE None

\* The resolver answered with a confirmation.
ConfirmationTurn == ResolverRan /\ ConfirmedAction(rturn.result.response) # None

C36_ConfirmationMatchesStatus ==
    ConfirmationTurn =>
        sessionMemory.order_states[RequestOfTurn.order_id].status
            = TargetOf(ConfirmedAction(rturn.result.response))

(***************************************************************************)
(* C37: the outcome of a cancel request for an order does not depend on    *)
(* earlier tracking queries: the response of the turn and the order's      *)
(* status after it are those the same request gets in a session where no   *)
(* tracking query was handled before it.                                   *)
(***************************************************************************)
\* The resolver handled a cancel request.
CancelTurn == ResolverRan /\ RequestOfTurn.resolution = "cancel"

\* The same message handled in a session that has handled nothing before.
WithoutTracking(message) ==
    process_with_context(message, NewSession,
                         [elliptical |-> FALSE, agent_raises |-> FALSE, agent_tracks |-> None])

C37_CancelIgnoresTracking ==
    CancelTurn =>
        /\ rturn.result.response = WithoutTracking(rturn.message).result.response
        /\ sessionMemory.order_states[RequestOfTurn.order_id].status
              = WithoutTracking(rturn.message).session.order_states[RequestOfTurn.order_id].status

(***************************************************************************)
(* C32: for an incomplete request that is not a tracking request and       *)
(* carries at least one of order id, issue and resolution, the router asks *)
(* for exactly one field that is missing, the resolution before the order  *)
(* id before the issue; the turn changes no order status and does not mark *)
(* the session resolved.                                                   *)
(***************************************************************************)
\* The call reached the detection of the request (the session was not
\* resolved and the message was not taken as a follow-up) and detected an
\* incomplete request that is not a tracking request and carries a field.
IncompleteNonTrackingTurn ==
    /\ RouterCall
    /\ ~rturn.before.resolved
    /\ rturn.result.intent # "tracking_followup"
    /\ ~RequestOfTurn.is_complete
    /\ ~RequestOfTurn.is_tracking
    /\ \/ RequestOfTurn.order_id # None
       \/ RequestOfTurn.issue # None
       \/ RequestOfTurn.resolution # None

\* The first missing field in the priority resolution, order id, issue.
FirstMissing(complete_request) ==
    IF complete_request.resolution = None THEN "resolution"
    ELSE IF complete_request.order_id = None THEN "order_id"
    ELSE "issue"

C32_AsksOneMissingField ==
    IncompleteNonTrackingTurn =>
        /\ rturn.result.response = MISSING_INFO_RESPONSES[FirstMissing(RequestOfTurn)]
        /\ sessionMemory.order_states = rturn.before.order_states
        /\ ~sessionMemory.resolved

(***************************************************************************)
(* C33: in multi-intent scoring, with scores taken after the +0.3 entity   *)
(* boost capped at 1.0, the detected intents are exactly those of score    *)
(* 0.3 or more, except that an intent other than the top one is dropped    *)
(* when its score is more than 0.4 below the top score; every confidence   *)
(* reported lies in [0, 1].  Scores are in hundredths.                     *)
(***************************************************************************)
\* The fallback analysed a message.
ScoredTurn == fallback.call = "process_with_context"

\* The intents that have a score after the boosts.
ScoredIntents == {BoostedKeys(fallback.entities)[i] : i \in 1..Len(BoostedKeys(fallback.entities))}

\* The score of an intent after the boosts.
ScoreAfterBoost(intent) == BoostedScore(fallback.scores, fallback.entities, intent)

\* The top score after the boosts.
TopScore == CHOOSE t \in {ScoreAfterBoost(k) : k \in ScoredIntents} :
                \A k \in ScoredIntents : ScoreAfterBoost(k) <= t

\* The intents of score 0.3 or more that are not more than 0.4 below the top
\* score.
WithinThresholds ==
    {k \in ScoredIntents : ScoreAfterBoost(k) >= 30 /\ ScoreAfterBoost(k) >= TopScore - 40}

\* The intents reported.
Reported == {fallback.routing.intents[i] : i \in 1..Len(fallback.routing.intents)}

\* Every confidence reported lies in [0, 1].
ConfidencesInRange ==
    \A k \in DOMAIN fallback.confidence_scores :
        fallback.confidence_scores[k] >= 0 /\ fallback.confidence_scores[k] <= 100

C34_PendingSlotIsRequired ==
    world.pending_slot # None =>
        /\ world.active_intent # None
        /\ \E i \in 1..Len(required_slots(world.active_intent)) :
              required_slots(world.active_intent)[i] = world.pending_slot
        /\ world.pending_slot \notin DOMAIN world.context

\* C34 witness: a lookup under ORDER_STATUS missed; the order id is pending
\* again and the context holds none.
C34_Witness ==
    /\ LookupMissTurn
    /\ world.active_intent = ORDER_STATUS
    /\ world.pending_slot = "order_id"
    /\ "order_id" \notin DOMAIN world.context

(***************************************************************************)
(* C38: after a lookup miss in any workflow, the id that was not found is  *)
(* no longer stored in session.persistent_entities['order_number'], so no  *)
(* later workflow of the session reuses an id the repository rejected;     *)
(* this covers ids that slot filling saved there before the lookup ran.    *)
(***************************************************************************)
\* The call looked an order up and the repository did not have it.
OrderMissTurn == LookupMissTurn /\ turn.lookup.repo = "order"

C38_MissForgetsOrderNumber ==
    OrderMissTurn =>
        ~(/\ "order_number" \in DOMAIN world.persistent_entities
          /\ world.persistent_entities["order_number"] = turn.lookup.key)

====
